---- MODULE Spec2Model ----
(***************************************************************************)
(* Scopus ID extractor (scopus_id_extractor.py): input validation and      *)
(* duplicate detection, the file-backed ResultCache, the checkpoint store  *)
(* and the batch runner of main().                                         *)
(*                                                                         *)
(* Strings are sequences of one-character strings, so that strip(),        *)
(* lower() and the DOI pattern are computed on characters.                 *)
(***************************************************************************)
EXTENDS Integers, Sequences, FiniteSets, TLC

\* ------------------------------------------------------------------------
\* Program constants
\* ------------------------------------------------------------------------
MIN_TITLE_LENGTH == 10
MAX_WORKERS == 3
CheckpointEvery == 10

\* ------------------------------------------------------------------------
\* Bounds of the model
\* ------------------------------------------------------------------------
\* longest input list of the validator harness
MaxLen == 3
\* number of worker threads that call the cache concurrently
MaxThreads == 2
\* last reading of the wall clock; it moves on from one process to the next
MaxClock == 1
\* number of process runs in a row
MaxRuns == 2
\* items beyond the second checkpoint in the longest input file
MaxExtra == 1
\* the lookup services' answers are shifted by 0..MaxSeed items
MaxSeed == 0

None == "None"

\* ------------------------------------------------------------------------
\* Characters and strings
\* ------------------------------------------------------------------------
Digits == {"0", "1", "2", "3", "4", "5", "6", "7", "8", "9"}
UpperLetters == {"A", "B", "D", "T", "X", "Y"}
LowerLetters ==
  {"a", "b", "d", "t", "x", "y", "i", "l", "e", "n", "o", "j", "s", "f"}
Whitespace == {" "}

\* str.lower() on one character
LowerChar(c) ==
  CASE c = "A" -> "a"
    [] c = "B" -> "b"
    [] c = "D" -> "d"
    [] c = "T" -> "t"
    [] c = "X" -> "x"
    [] c = "Y" -> "y"
    [] OTHER -> c

\* str.lower()
Lower(s) == [k \in 1..Len(s) |-> LowerChar(s[k])]

\* str.strip(): drop leading and trailing whitespace
RECURSIVE LStrip(_)
LStrip(s) ==
  IF s # <<>> /\ Head(s) \in Whitespace THEN LStrip(Tail(s)) ELSE s

RECURSIVE RStrip(_)
RStrip(s) ==
  IF s # <<>> /\ s[Len(s)] \in Whitespace
  THEN RStrip(SubSeq(s, 1, Len(s) - 1))
  ELSE s

Strip(s) == RStrip(LStrip(s))

\* item.lower().strip() of detect_duplicates, key.lower().strip() of the cache
NormalizeItem(s) == Strip(Lower(s))

\* a cache key that is trimmed only
NormalizeKeyCaseSensitive(s) == Strip(s)

NormalizeKey(s) == Strip(Lower(s))

\* ------------------------------------------------------------------------
\* InputValidator
\* ------------------------------------------------------------------------
\* [-._;()/:A-Z0-9] under re.IGNORECASE
DoiSuffixChars ==
  {"-", ".", "_", ";", "(", ")", "/", ":"} \cup UpperLetters \cup LowerLetters
    \cup Digits

\* DOI_PATTERN.match(s): ^10\.\d{4,9}/[-._;()/:A-Z0-9]+$
DoiPatternMatch(s) ==
  /\ Len(s) >= 3
  /\ s[1] = "1" /\ s[2] = "0" /\ s[3] = "."
  /\ \E d \in 4..9 :
       /\ Len(s) >= d + 5
       /\ \A k \in 4..(d + 3) : s[k] \in Digits
       /\ s[d + 4] = "/"
       /\ \A k \in (d + 5)..Len(s) : s[k] \in DoiSuffixChars

\* a validate_doi that matches the pattern against the string as given
validate_doi_untrimmed(doi) ==
  IF Strip(doi) = <<>> THEN <<FALSE, "Empty DOI">>
  ELSE IF ~DoiPatternMatch(doi) THEN <<FALSE, "Invalid DOI format">>
  ELSE <<TRUE, "">>

\* validate_doi: <<is_valid, error>>
validate_doi(doi) ==
  LET d == Strip(doi) IN
  IF d = <<>> THEN <<FALSE, "Empty DOI">>
  ELSE IF ~DoiPatternMatch(d) THEN <<FALSE, "Invalid DOI format">>
  ELSE <<TRUE, "">>

\* a validate_title that accepts only titles longer than the minimum
validate_title_above_min(title) ==
  LET t == Strip(title) IN
  IF t = <<>> THEN <<FALSE, "Empty title">>
  ELSE IF Len(t) <= MIN_TITLE_LENGTH THEN <<FALSE, "Title too short">>
  ELSE <<TRUE, "">>

\* validate_title: <<is_valid, error>>
validate_title(title) ==
  LET t == Strip(title) IN
  IF t = <<>> THEN <<FALSE, "Empty title">>
  ELSE IF Len(t) < MIN_TITLE_LENGTH THEN <<FALSE, "Title too short">>
  ELSE <<TRUE, "">>

\* a forward pass that records the 0-based index of each occurrence
RECURSIVE DetectFromZeroBased(_, _, _, _, _)
DetectFromZeroBased(list, i, seen, unique, duplicates) ==
  IF i >= Len(list) THEN <<unique, duplicates>>
  ELSE
    LET item == list[i + 1]
        normalized == NormalizeItem(item)
    IN IF normalized \in DOMAIN seen
       THEN DetectFromZeroBased(list, i + 1, seen, unique,
                                Append(duplicates, <<i, item, seen[normalized]>>))
       ELSE DetectFromZeroBased(list, i + 1, seen @@ (normalized :> i),
                                Append(unique, item), duplicates)

\* the forward pass of detect_duplicates from 0-based index i on; seen maps a
\* normalized item to the 0-based index of its first occurrence
RECURSIVE DetectFrom(_, _, _, _, _)
DetectFrom(list, i, seen, unique, duplicates) ==
  IF i >= Len(list) THEN <<unique, duplicates>>
  ELSE
    LET item == list[i + 1]
        normalized == NormalizeItem(item)
    IN IF normalized \in DOMAIN seen
       THEN DetectFrom(list, i + 1, seen, unique,
                       Append(duplicates, <<i + 1, item, seen[normalized] + 1>>))
       ELSE DetectFrom(list, i + 1, seen @@ (normalized :> i),
                       Append(unique, item), duplicates)

\* detect_duplicates(items): <<unique_items, duplicates_info>>
detect_duplicates(list) == DetectFrom(list, 0, <<>>, <<>>, <<>>)

\* the validity pass of validate_batch from 0-based index i on
RECURSIVE PartitionFrom(_, _, _, _, _)
PartitionFrom(list, search_mode, i, valid_items, invalid_items) ==
  IF i >= Len(list) THEN <<valid_items, invalid_items>>
  ELSE
    LET item == list[i + 1]
        res == IF search_mode = "doi" THEN validate_doi(item)
               ELSE validate_title(item)
    IN IF res[1]
       THEN PartitionFrom(list, search_mode, i + 1,
                          Append(valid_items, item), invalid_items)
       ELSE PartitionFrom(list, search_mode, i + 1, valid_items,
                          Append(invalid_items, <<i + 1, item, res[2]>>))

\* validate_batch(items, search_mode): the validation report
validate_batch(list, search_mode) ==
  LET parts == PartitionFrom(list, search_mode, 0, <<>>, <<>>)
      dd == detect_duplicates(parts[1])
  IN [total |-> Len(list),
      valid |-> Len(parts[1]),
      invalid |-> Len(parts[2]),
      invalid_items |-> parts[2],
      unique |-> Len(dd[1]),
      duplicates |-> Len(dd[2]),
      duplicate_items |-> dd[2],
      unique_items |-> dd[1]]

\* ------------------------------------------------------------------------
\* State
\* ------------------------------------------------------------------------
VARIABLES
  \* files on disk
  inputFile, cacheFile, checkpointFile, outputFile, reportFile,
  \* the environment: the lookup services' answers and the wall clock
  answers, clock,
  \* the ResultCache object: its dict and its lock
  cache, lock,
  \* the threads that call the cache: position, call arguments, return value
  wpc, wop, wret,
  \* the process running main(): position, parsed arguments, locals, globals
  pc, args, search_mode, items, validation_report, start_index,
  existing_results, results, i, cur,
  interrupt_flag, requests_made, errors_count, cache_hits,
  \* history: what the claims speak about
  committed, lastSet, saveFailed, crashOp, runs, interruptedAt, prevRun

diskVars ==
  <<inputFile, cacheFile, checkpointFile, outputFile, reportFile>>
envVars == <<answers, clock>>
cacheVars == <<cache, lock>>
threadVars == <<wpc, wop, wret>>
mainVars ==
  <<pc, args, search_mode, items, validation_report, start_index,
    existing_results, results, i, cur, interrupt_flag, requests_made,
    errors_count, cache_hits>>
histVars == <<committed, lastSet, saveFailed, crashOp>>
runHistVars == <<runs, interruptedAt, prevRun>>
vars ==
  <<diskVars, envVars, cacheVars, threadVars, mainVars, histVars, runHistVars>>

\* the thread of main() and the worker threads of the cache harness
Main == 0
Workers == 1..MaxThreads
Threads == {Main} \cup Workers
\* threading.Lock(): not held
Unlocked == -1

EmptyMap == <<>>

\* no call in progress
NoArgs == [op |-> "none", key |-> <<>>, value |-> EmptyMap]

\* ------------------------------------------------------------------------
\* Files
\* ------------------------------------------------------------------------
\* a file that does not exist
AbsentFile == [state |-> "absent", data |-> EmptyMap]
\* a file just opened with mode 'w', or left half-written: not a JSON document
TruncatedFile == [state |-> "partial", data |-> EmptyMap]
\* json.dump(obj, f) run to completion and the file closed
JsonDump(obj) == [state |-> "ok", data |-> obj]
\* os.path.exists(path)
FileExists(f) == f.state # "absent"
\* json.load(f) succeeds
JsonLoads(f) == f.state = "ok"

\* ------------------------------------------------------------------------
\* ResultCache
\* ------------------------------------------------------------------------
\* dict.get on None: no entry
NoEntry == [absent |-> TRUE]

\* _load_cache: the file's dict, or {} when it is missing or unreadable
LoadCache(f) == IF FileExists(f) /\ JsonLoads(f) THEN f.data ELSE EmptyMap

\* value['cached_at'] = datetime.now().isoformat()
StampValue(value, now) ==
  [f \in DOMAIN value \cup {"cached_at"} |->
     IF f = "cached_at" THEN now ELSE value[f]]

\* SetEntry as it would be with the key stored as given, not normalized
SetEntryRawKey(c, key, value, now) ==
  [k \in DOMAIN c \cup {key} |->
     IF k = key THEN StampValue(value, now) ELSE c[k]]

\* self.cache[normalized_key] = value
SetEntry(c, key, value, now) ==
  LET normalized_key == NormalizeKey(key) IN
  [k \in DOMAIN c \cup {normalized_key} |->
     IF k = normalized_key THEN StampValue(value, now) ELSE c[k]]

\* self.cache.get(normalized_key)
GetEntry(c, key) ==
  LET normalized_key == NormalizeKey(key) IN
  IF normalized_key \in DOMAIN c THEN c[normalized_key] ELSE NoEntry

\* stats(): the dict it returns
StatsOf(c, f) ==
  [total_entries |-> Cardinality(DOMAIN c), file_exists |-> FileExists(f)]

\* a thread is inside a `with self.lock:` block
InSection(w) == wpc[w] \in {"body", "save_open", "save_dump", "unlock"}

\* CacheAcquire as it would be if the method did not wait for the lock
CacheAcquireNoWait(w) ==
  /\ wpc[w] = "lock"
  /\ lock' = w
  /\ wpc' = [wpc EXCEPT ![w] = "body"]
  /\ UNCHANGED <<cache, wop, wret, diskVars, envVars, mainVars, histVars,
                 runHistVars>>

\* `with self.lock:` entered: the lock is taken when it is free
CacheAcquire(w) ==
  /\ wpc[w] = "lock"
  /\ lock = Unlocked
  /\ lock' = w
  /\ wpc' = [wpc EXCEPT ![w] = "body"]
  /\ UNCHANGED <<cache, wop, wret, diskVars, envVars, mainVars, histVars,
                 runHistVars>>

\* get: normalize the key and read the dict
CacheGetBody(w) ==
  /\ wpc[w] = "body" /\ wop[w].op = "get"
  /\ wret' = [wret EXCEPT ![w] = GetEntry(cache, wop[w].key)]
  /\ wpc' = [wpc EXCEPT ![w] = "unlock"]
  /\ UNCHANGED <<cacheVars, wop, diskVars, envVars, mainVars, histVars,
                 runHistVars>>

\* CacheSetBody as it would be with the write batched: no _save_cache()
CacheSetBodyNoSave(w) ==
  /\ wpc[w] = "body" /\ wop[w].op = "set"
  /\ cache' = SetEntry(cache, wop[w].key, wop[w].value, clock)
  /\ wpc' = [wpc EXCEPT ![w] = "unlock"]
  /\ lastSet' = [k \in DOMAIN lastSet \cup {NormalizeKey(wop[w].key)} |->
                   IF k = NormalizeKey(wop[w].key) THEN wop[w].value
                   ELSE lastSet[k]]
  /\ UNCHANGED <<lock, wop, wret, diskVars, envVars, mainVars, committed,
                 saveFailed, crashOp, runHistVars>>

\* set: normalize the key, stamp the value, store it, then _save_cache()
CacheSetBody(w) ==
  /\ wpc[w] = "body" /\ wop[w].op = "set"
  /\ cache' = SetEntry(cache, wop[w].key, wop[w].value, clock)
  /\ wpc' = [wpc EXCEPT ![w] = "save_open"]
  /\ lastSet' = [k \in DOMAIN lastSet \cup {NormalizeKey(wop[w].key)} |->
                   IF k = NormalizeKey(wop[w].key) THEN wop[w].value
                   ELSE lastSet[k]]
  /\ UNCHANGED <<lock, wop, wret, diskVars, envVars, mainVars, committed,
                 saveFailed, crashOp, runHistVars>>

\* clear: empty the dict, then _save_cache()
CacheClearBody(w) ==
  /\ wpc[w] = "body" /\ wop[w].op = "clear"
  /\ cache' = EmptyMap
  /\ wpc' = [wpc EXCEPT ![w] = "save_open"]
  /\ lastSet' = EmptyMap
  /\ UNCHANGED <<lock, wop, wret, diskVars, envVars, mainVars, committed,
                 saveFailed, crashOp, runHistVars>>

\* stats: count the entries and look whether the file exists
CacheStatsBody(w) ==
  /\ wpc[w] = "body" /\ wop[w].op = "stats"
  /\ wret' = [wret EXCEPT ![w] = StatsOf(cache, cacheFile)]
  /\ wpc' = [wpc EXCEPT ![w] = "unlock"]
  /\ UNCHANGED <<cacheVars, wop, diskVars, envVars, mainVars, histVars,
                 runHistVars>>

\* _save_cache: open(self.cache_file, 'w') truncates the file in place
SaveOpen(w) ==
  /\ wpc[w] = "save_open"
  /\ cacheFile' = TruncatedFile
  /\ wpc' = [wpc EXCEPT ![w] = "save_dump"]
  /\ UNCHANGED <<inputFile, checkpointFile, outputFile, reportFile, envVars, cacheVars,
                 wop, wret, mainVars, histVars, runHistVars>>

\* _save_cache: open() raises; the exception is logged and swallowed
SaveOpenFail(w) ==
  /\ wpc[w] = "save_open"
  /\ saveFailed' = TRUE
  /\ wpc' = [wpc EXCEPT ![w] = "unlock"]
  /\ UNCHANGED <<diskVars, envVars, cacheVars, wop, wret, mainVars, committed,
                 lastSet, crashOp, runHistVars>>

\* _save_cache: json.dump writes the whole dict and the file is closed
SaveDump(w) ==
  /\ wpc[w] = "save_dump"
  /\ cacheFile' = JsonDump(cache)
  /\ saveFailed' = FALSE
  /\ wpc' = [wpc EXCEPT ![w] = "unlock"]
  /\ UNCHANGED <<inputFile, checkpointFile, outputFile, reportFile, envVars, cacheVars,
                 wop, wret, mainVars, committed, lastSet, crashOp,
                 runHistVars>>

\* a failed write after which the dict goes back to what had been saved
SaveDumpFailRollback(w) ==
  /\ wpc[w] = "save_dump"
  /\ cacheFile' = TruncatedFile
  /\ saveFailed' = TRUE
  /\ cache' = committed
  /\ wpc' = [wpc EXCEPT ![w] = "unlock"]
  /\ UNCHANGED <<inputFile, checkpointFile, outputFile, reportFile, envVars,
                 lock, wop, wret, mainVars, committed, lastSet, crashOp,
                 runHistVars>>

\* _save_cache: the write raises midway; logged and swallowed, the file stays
\* half-written
SaveDumpFail(w) ==
  /\ wpc[w] = "save_dump"
  /\ cacheFile' = TruncatedFile
  /\ saveFailed' = TRUE
  /\ wpc' = [wpc EXCEPT ![w] = "unlock"]
  /\ UNCHANGED <<inputFile, checkpointFile, outputFile, reportFile, envVars, cacheVars,
                 wop, wret, mainVars, committed, lastSet, crashOp,
                 runHistVars>>

\* the `with` block is left: the lock is released and the method returns.
\* main() goes on with the return value; a worker thread of the harness drops
\* it and is free for its next call
CacheRelease(w) ==
  /\ wpc[w] = "unlock"
  /\ lock' = Unlocked
  /\ wpc' = [wpc EXCEPT ![w] = IF w = Main THEN "ret" ELSE "idle"]
  /\ wop' = [wop EXCEPT ![w] = IF w = Main THEN @ ELSE NoArgs]
  /\ wret' = [wret EXCEPT ![w] = IF w = Main THEN @ ELSE NoEntry]
  /\ committed' =
       CASE wop[w].op = "set" ->
              [k \in DOMAIN committed \cup {NormalizeKey(wop[w].key)} |->
                 IF k = NormalizeKey(wop[w].key) THEN wop[w].value
                 ELSE committed[k]]
         [] wop[w].op = "clear" -> EmptyMap
         [] OTHER -> committed
  /\ UNCHANGED <<cache, diskVars, envVars, mainVars, lastSet, saveFailed,
                 crashOp, runHistVars>>

\* one step of a ResultCache method, whoever the caller is
CacheStep(w) ==
  \/ CacheAcquire(w)
  \/ CacheGetBody(w)
  \/ CacheSetBody(w)
  \/ CacheClearBody(w)
  \/ CacheStatsBody(w)
  \/ SaveOpen(w)
  \/ SaveDump(w)
  \/ CacheRelease(w)

\* ------------------------------------------------------------------------
\* Concurrent callers of one ResultCache, and the process dying under them
\* ------------------------------------------------------------------------
\* the calls the worker threads make: get and set under keys that differ in
\* case and surrounding blanks, clear, stats
GetKeys == {<<"X">>, <<"y">>}
SetCalls ==
  {[key |-> <<" ", "x">>,
    value |-> [title |-> "T1", scopus_id |-> "E1", source |-> "scopus"]],
   [key |-> <<"X">>,
    value |-> [title |-> "T2", scopus_id |-> "E2", source |-> "scopus"]],
   [key |-> <<"y">>,
    value |-> [title |-> "T1", scopus_id |-> "E1", source |-> "scopus"]]}
WorkerCalls ==
  {[op |-> "get", key |-> k, value |-> EmptyMap] : k \in GetKeys}
    \cup {[op |-> "set", key |-> c.key, value |-> c.value] : c \in SetCalls}
    \cup {[op |-> "clear", key |-> <<>>, value |-> EmptyMap],
          [op |-> "stats", key |-> <<>>, value |-> EmptyMap]}

\* the state of main() while no pipeline runs
MainOff ==
  /\ pc = "off"
  /\ args = EmptyMap
  /\ search_mode = "doi"
  /\ items = <<>>
  /\ validation_report = EmptyMap
  /\ start_index = 0
  /\ existing_results = <<>>
  /\ results = <<>>
  /\ i = 0
  /\ cur = EmptyMap
  /\ interrupt_flag = FALSE
  /\ requests_made = 0
  /\ errors_count = 0
  /\ cache_hits = 0
  /\ runs = 0
  /\ interruptedAt = "none"
  /\ prevRun = "none"

\* ResultCache(CACHE_FILE) on a machine without a cache file, no call made yet
InitCache ==
  /\ inputFile = AbsentFile
  /\ cacheFile = AbsentFile
  /\ checkpointFile = AbsentFile
  /\ outputFile = AbsentFile
  /\ reportFile = AbsentFile
  /\ answers = 0
  /\ clock = 0
  /\ cache = LoadCache(cacheFile)
  /\ lock = Unlocked
  /\ wpc = [w \in Threads |-> IF w = Main THEN "off" ELSE "idle"]
  /\ wop = [w \in Threads |-> NoArgs]
  /\ wret = [w \in Threads |-> NoEntry]
  /\ MainOff
  /\ committed = EmptyMap
  /\ lastSet = EmptyMap
  /\ saveFailed = FALSE
  /\ crashOp = "alive"

\* a worker thread calls get, set, clear or stats
WorkerCall(w) ==
  /\ wpc[w] = "idle"
  /\ \E call \in WorkerCalls : wop' = [wop EXCEPT ![w] = call]
  /\ wpc' = [wpc EXCEPT ![w] = "lock"]
  /\ UNCHANGED <<wret, diskVars, envVars, cacheVars, mainVars, histVars,
                 runHistVars>>

\* the process dies (killed, power loss, SystemExit raised by signal_handler):
\* every thread stops where it is, memory is gone, the files stay as they are
Crash ==
  /\ crashOp = "alive"
  /\ crashOp' = IF lock = Unlocked THEN "none" ELSE wop[lock].op
  /\ wpc' = [w \in Threads |-> IF w = Main THEN "off" ELSE "dead"]
  /\ wop' = [w \in Threads |-> NoArgs]
  /\ wret' = [w \in Threads |-> NoEntry]
  /\ cache' = EmptyMap
  /\ lock' = Unlocked
  /\ UNCHANGED <<diskVars, envVars, mainVars, committed, lastSet, saveFailed,
                 runHistVars>>

\* the next process constructs ResultCache(CACHE_FILE): _load_cache
Restart ==
  /\ crashOp # "alive"
  /\ crashOp' = "alive"
  /\ cache' = LoadCache(cacheFile)
  /\ lock' = Unlocked
  /\ wpc' = [w \in Threads |-> IF w = Main THEN "off" ELSE "idle"]
  /\ committed' = LoadCache(cacheFile)
  /\ lastSet' = LoadCache(cacheFile)
  /\ saveFailed' = FALSE
  /\ clock' = IF clock < MaxClock THEN clock + 1 ELSE clock
  /\ UNCHANGED <<wop, wret, diskVars, answers, mainVars, runHistVars>>

NextCache ==
  \/ \E w \in Workers : WorkerCall(w)
  \/ \E w \in Workers : CacheStep(w)
  \/ \E w \in Workers : SaveOpenFail(w)
  \/ \E w \in Workers : SaveDumpFail(w)
  \/ Crash
  \/ Restart

SpecCache == InitCache /\ [][NextCache]_vars

\* ------------------------------------------------------------------------
\* main(): loading and validating
\* ------------------------------------------------------------------------
\* the run has left main(): position of a process that is not running
Stopped == {"off", "done"}

\* args of a run that only validates
DryRunArgs ==
  [resume |-> FALSE, limit |-> 0, no_cache |-> FALSE, dry_run |-> TRUE,
   workers |-> MAX_WORKERS, cache_op |-> "none", skip_duplicates |-> FALSE]

\* load_items_from_file: [line.strip() for line in f if line.strip()]
RECURSIVE StripLines(_)
StripLines(lines) ==
  IF lines = <<>> THEN <<>>
  ELSE IF Strip(Head(lines)) = <<>> THEN StripLines(Tail(lines))
  ELSE <<Strip(Head(lines))>> \o StripLines(Tail(lines))

\* a loader that takes a missing file for an empty one
LoadItemsMissingAsEmpty ==
  /\ pc = "loading"
  /\ pc' = "validating"
  /\ items' = IF FileExists(inputFile) THEN StripLines(inputFile.data) ELSE <<>>
  /\ UNCHANGED <<args, search_mode, validation_report, start_index,
                 existing_results, results, i, cur, interrupt_flag,
                 requests_made, errors_count, cache_hits, diskVars, envVars,
                 cacheVars, threadVars, histVars, runHistVars>>

\* items = load_items_from_file(input_file); a missing file raises
\* FileNotFoundError, which nothing catches: the process ends
LoadItems ==
  /\ pc = "loading"
  /\ IF ~FileExists(inputFile)
     THEN /\ pc' = "done"
          /\ items' = <<>>
     ELSE /\ pc' = "validating"
          /\ items' = StripLines(inputFile.data)
  /\ UNCHANGED <<args, search_mode, validation_report, start_index,
                 existing_results, results, i, cur, interrupt_flag,
                 requests_made, errors_count, cache_hits, diskVars, envVars,
                 cacheVars, threadVars, histVars, runHistVars>>

\* save_validation_report: what the report file lists
ReportText(report, mode) ==
  [search_mode |-> mode,
   total |-> report.total,
   valid |-> report.valid,
   invalid |-> report.invalid,
   unique |-> report.unique,
   duplicates |-> report.duplicates,
   invalid_items |-> report.invalid_items,
   duplicate_items |-> report.duplicate_items]

\* a conditional whose else branch keeps the duplicates, after the unique
\* items
ItemsAfterValidationKeepAll(report, skip_duplicates) ==
  IF skip_duplicates /\ report.duplicates > 0
  THEN report.unique_items
  ELSE report.unique_items
         \o [k \in 1..Len(report.duplicate_items) |->
               report.duplicate_items[k][2]]

\* items after the skip-duplicates conditional: both branches take the
\* deduplicated list
ItemsAfterValidation(report, skip_duplicates) ==
  IF skip_duplicates /\ report.duplicates > 0
  THEN report.unique_items
  ELSE report.unique_items

\* a validation step after which --dry-run is not looked at
ValidateInputNoDryRun ==
  /\ pc = "validating"
  /\ LET report == validate_batch(items, search_mode) IN
     /\ validation_report' = report
     /\ reportFile' =
          IF report.invalid > 0 \/ report.duplicates > 0
          THEN JsonDump(ReportText(report, search_mode))
          ELSE reportFile
     /\ items' = ItemsAfterValidation(report, args.skip_duplicates)
  /\ pc' = "restoring"
  /\ UNCHANGED <<args, search_mode, start_index, existing_results, results, i,
                 cur, interrupt_flag, requests_made, errors_count, cache_hits,
                 inputFile, cacheFile, checkpointFile, outputFile, envVars,
                 cacheVars, threadVars, histVars, runHistVars>>

\* validate_batch, the validation report file, the working list, --dry-run
ValidateInput ==
  /\ pc = "validating"
  /\ LET report == validate_batch(items, search_mode) IN
     /\ validation_report' = report
     /\ reportFile' =
          IF report.invalid > 0 \/ report.duplicates > 0
          THEN JsonDump(ReportText(report, search_mode))
          ELSE reportFile
     /\ items' = ItemsAfterValidation(report, args.skip_duplicates)
  /\ pc' = IF args.dry_run THEN "done" ELSE "restoring"
  /\ UNCHANGED <<args, search_mode, start_index, existing_results, results, i,
                 cur, interrupt_flag, requests_made, errors_count, cache_hits,
                 inputFile, cacheFile, checkpointFile, outputFile, envVars,
                 cacheVars, threadVars, histVars, runHistVars>>

\* ------------------------------------------------------------------------
\* Validation on its own: dry runs over every short input file
\* ------------------------------------------------------------------------
\* lines of an input file: DOIs that differ in case only, a DOI that is also a
\* long enough title, a malformed item, a blank line, a padded line
LinePool ==
  {<<"1", "0", ".", "1", "2", "3", "4", "/", "X">>,
   <<"1", "0", ".", "1", "2", "3", "4", "/", "x">>,
   <<"1", "0", ".", "1", "2", "3", "4", "/", "Y", "y">>,
   <<"1", "0", ".", "1", "2", "3", "4", "/", "Y", "Y">>,
   <<"b", "a", "d">>,
   <<" ">>,
   <<" ", "1", "0", ".", "1", "2", "3", "4", "/", "X">>}

\* every sequence over S of length at most n
SeqsUpTo(S, n) == UNION {[1..k -> S] : k \in 0..n}

InitValidate ==
  /\ inputFile \in {JsonDump(lines) : lines \in SeqsUpTo(LinePool, MaxLen)}
  /\ search_mode \in {"doi", "title"}
  /\ cacheFile = AbsentFile
  /\ checkpointFile = AbsentFile
  /\ outputFile = AbsentFile
  /\ reportFile = AbsentFile
  /\ answers = 0
  /\ clock = 0
  /\ cache = LoadCache(cacheFile)
  /\ lock = Unlocked
  /\ wpc = [w \in Threads |-> "off"]
  /\ wop = [w \in Threads |-> NoArgs]
  /\ wret = [w \in Threads |-> NoEntry]
  /\ pc = "loading"
  /\ args \in {[DryRunArgs EXCEPT !.skip_duplicates = b] : b \in BOOLEAN}
  /\ items = <<>>
  /\ validation_report = EmptyMap
  /\ start_index = 0
  /\ existing_results = <<>>
  /\ results = <<>>
  /\ i = 0
  /\ cur = EmptyMap
  /\ interrupt_flag = FALSE
  /\ requests_made = 0
  /\ errors_count = 0
  /\ cache_hits = 0
  /\ committed = EmptyMap
  /\ lastSet = EmptyMap
  /\ saveFailed = FALSE
  /\ crashOp = "alive"
  /\ runs = 1
  /\ interruptedAt = "none"
  /\ prevRun = "none"

NextValidate == LoadItems \/ ValidateInput

SpecValidate == InitValidate /\ [][NextValidate]_vars

\* ------------------------------------------------------------------------
\* The validator and the cache keys called directly, on any list of strings
\* ------------------------------------------------------------------------
\* arguments: blank strings, well-formed and malformed DOIs, identifiers that
\* differ in case or padding only, titles around the minimum length
StringPool ==
  {<<>>,
   <<" ">>,
   <<"1", "0", ".", "1", "0", "1", "6", "/", "j", ".", "s", "o", "f", "t",
     "x", ".", "2", "0", "1", "9", ".", "1", "0", "0", "2", "6", "3">>,
   <<"n", "o", "t", "-", "a", "-", "d", "o", "i">>,
   <<"1", "0", ".", "1", "/", "A">>,
   <<"1", "0", ".", "1", "/", "a">>,
   <<"1", "0", ".", "1", "/", "B">>,
   <<"1", "0", ".", "1", "2", "3", "4", "/", "X">>,
   <<" ", "1", "0", ".", "1", "2", "3", "4", "/", "x", " ">>,
   <<"1", "0", ".", "1", "2", "3", "/", "x">>,
   <<"1", "0", ".", "1", "2", "3", "4", "5", "6", "7", "8", "9", "0", "/", "x">>,
   <<"1", "0", ".", "1", "2", "3", "4", "/">>,
   <<"1", "0", ".", "1", "2", "3", "4", "/", "x", " ", "y">>,
   <<"t", "i", "t", "l", "e", " ", "n", "o", "t">>,
   <<"t", "i", "t", "l", "e", " ", "n", "o", "t", "e">>,
   <<" ", "T", "i", "t", "l", "e", " ", "n", "o", "t", " ">>,
   <<" ", "T", "i", "t", "l", "e", " ", "n", "o", "t", "e">>}

\* the value a direct call of cache.set stores
ProbeValue == [title |-> "T1", scopus_id |-> "E1", source |-> "scopus"]

\* a list of arguments, nothing called yet
InitCalls ==
  /\ items \in SeqsUpTo(StringPool, MaxLen)
  /\ inputFile = AbsentFile
  /\ cacheFile = AbsentFile
  /\ checkpointFile = AbsentFile
  /\ outputFile = AbsentFile
  /\ reportFile = AbsentFile
  /\ answers = 0
  /\ clock = 0
  /\ cache = EmptyMap
  /\ lock = Unlocked
  /\ wpc = [w \in Threads |-> "off"]
  /\ wop = [w \in Threads |-> NoArgs]
  /\ wret = [w \in Threads |-> NoEntry]
  /\ pc = "call"
  /\ args = EmptyMap
  /\ search_mode = "doi"
  /\ validation_report = EmptyMap
  /\ start_index = 0
  /\ existing_results = <<>>
  /\ results = <<>>
  /\ i = 0
  /\ cur = EmptyMap
  /\ interrupt_flag = FALSE
  /\ requests_made = 0
  /\ errors_count = 0
  /\ cache_hits = 0
  /\ committed = EmptyMap
  /\ lastSet = EmptyMap
  /\ saveFailed = FALSE
  /\ crashOp = "alive"
  /\ runs = 0
  /\ interruptedAt = "none"
  /\ prevRun = "none"

\* unique, duplicates = InputValidator.detect_duplicates(items)
CallDetectDuplicates ==
  /\ pc = "call"
  /\ pc' = "detected"
  /\ validation_report' =
       [unique_items |-> detect_duplicates(items)[1],
        duplicate_items |-> detect_duplicates(items)[2]]
  /\ UNCHANGED <<args, search_mode, items, start_index, existing_results,
                 results, i, cur, interrupt_flag, requests_made, errors_count,
                 cache_hits, diskVars, envVars, cacheVars, threadVars,
                 histVars, runHistVars>>

\* InputValidator.validate_doi(s) and InputValidator.validate_title(s) for
\* each s of the list
CallValidators ==
  /\ pc = "call"
  /\ pc' = "validated"
  /\ validation_report' =
       [doi |-> [k \in 1..Len(items) |-> validate_doi(items[k])],
        title |-> [k \in 1..Len(items) |-> validate_title(items[k])]]
  /\ UNCHANGED <<args, search_mode, items, start_index, existing_results,
                 results, i, cur, interrupt_flag, requests_made, errors_count,
                 cache_hits, diskVars, envVars, cacheVars, threadVars,
                 histVars, runHistVars>>

\* after detect_duplicates: cache.set(first, value) on an empty cache, then
\* cache.get(last)
CallSetThenGet ==
  /\ pc = "detected"
  /\ items # <<>>
  /\ pc' = "probed"
  /\ cache' = SetEntry(EmptyMap, items[1], ProbeValue, clock)
  /\ cur' = GetEntry(cache', items[Len(items)])
  /\ UNCHANGED <<args, search_mode, items, validation_report, start_index,
                 existing_results, results, i, interrupt_flag, requests_made,
                 errors_count, cache_hits, lock, diskVars, envVars, threadVars,
                 histVars, runHistVars>>

NextCalls ==
  \/ CallDetectDuplicates
  \/ CallValidators
  \/ CallSetThenGet

SpecCalls == InitCalls /\ [][NextCalls]_vars

\* ------------------------------------------------------------------------
\* The lookup services
\* ------------------------------------------------------------------------
DigitSeq == <<"0", "1", "2", "3", "4", "5", "6", "7", "8", "9">>
DigitVal(c) == CHOOSE n \in 0..9 : DigitSeq[n + 1] = c

\* the number an item of the input files ends in
ItemNo(item) ==
  DigitVal(item[Len(item) - 1]) * 10 + DigitVal(item[Len(item)])

\* what a service answers: found (200 with a match), noeid (200, the match
\* carries no eid), empty (200 without a match), 401, 429, 500, exc
\* (requests.RequestException)
PrimaryKinds == <<"found", "empty", "429", "401", "500", "exc", "noeid">>
FallbackKinds == <<"500", "found", "429", "exc", "empty", "401">>

\* what the primary and the fallback service answer for one item: every pair
\* of a primary and a fallback answer, neighbours differing in both
AnswerKinds ==
  [k \in 1..(Len(PrimaryKinds) * Len(FallbackKinds)) |->
     LET p == (k - 1) % Len(PrimaryKinds)
         q == (k - 1) \div Len(PrimaryKinds)
     IN <<PrimaryKinds[p + 1], FallbackKinds[((p + q) % Len(FallbackKinds)) + 1]>>]

\* the services answer the same item the same way in every run
AnswerOf(item) ==
  AnswerKinds[((ItemNo(item) + answers) % Len(AnswerKinds)) + 1]

\* search_scopus_api / search_scopus_api_title after the request was sent:
\* the values returned, and whether errors_count was incremented
PrimaryResponse(kind) ==
  CASE kind = "found" ->
         [title |-> "Ts", scopus_id |-> "E", doi |-> "Ds", failed |-> FALSE]
    [] kind = "noeid" ->
         [title |-> "Ts", scopus_id |-> None, doi |-> "Ds", failed |-> FALSE]
    [] OTHER ->
         [title |-> None, scopus_id |-> None, doi |-> None, failed |-> TRUE]

\* search_openalex_doi / search_openalex_title after the request was sent
FallbackResponse(mode, kind) ==
  CASE kind = "found" ->
         [title |-> "To", doi |-> "Do", failed |-> FALSE]
    [] kind = "empty" ->
         [title |-> None, doi |-> None, failed |-> (mode = "title")]
    [] OTHER ->
         [title |-> None, doi |-> None, failed |-> TRUE]

\* process_doi_item / process_title_item on a cache miss: the locals after
\* the primary call and, when it gave no Scopus ID, the fallback call
LookupItem(mode, item) ==
  LET p == PrimaryResponse(AnswerOf(item)[1])
      f == FallbackResponse(mode, AnswerOf(item)[2])
  IN IF p.scopus_id # None
     THEN [title |-> p.title, scopus_id |-> p.scopus_id, doi |-> p.doi,
           cached |-> FALSE]
     ELSE [title |-> f.title, scopus_id |-> p.scopus_id,
           doi |-> IF mode = "title" THEN f.doi ELSE p.doi,
           cached |-> FALSE]

\* dict.get(field)
FieldGet(rec, field) == IF field \in DOMAIN rec THEN rec[field] ELSE None

\* the dict handed to cache.set
CacheValue(mode, c) ==
  IF mode = "doi"
  THEN [title |-> c.title, scopus_id |-> c.scopus_id, source |-> "scopus"]
  ELSE [title |-> c.title, scopus_id |-> c.scopus_id, doi |-> c.doi,
        source |-> "scopus"]

\* the row main() appends to results
ResultRow(mode, item, c) ==
  IF mode = "doi"
  THEN [doi |-> item, title |-> c.title, scopus_id |-> c.scopus_id]
  ELSE [search_title |-> item, found_title |-> c.title,
        scopus_id |-> c.scopus_id, doi |-> c.doi]

\* the columns of a record of a mode
RowFields(mode) ==
  IF mode = "doi" THEN {"doi", "title", "scopus_id"}
  ELSE {"search_title", "found_title", "scopus_id", "doi"}

\* the input item a record of a mode is about
RowItem(mode, row) ==
  FieldGet(row, IF mode = "doi" THEN "doi" ELSE "search_title")

\* row is a record of the mode, about item
RowIsAbout(mode, row, item) ==
  /\ DOMAIN row = RowFields(mode)
  /\ RowItem(mode, row) = item

\* ------------------------------------------------------------------------
\* The checkpoint store and the output report
\* ------------------------------------------------------------------------
\* load_checkpoint: the stored dict, or None when the file is missing or
\* cannot be parsed
CheckpointLoads(f) == FileExists(f) /\ JsonLoads(f)

\* the dict save_checkpoint dumps
CheckpointOf(mode, total, index, now, rows) ==
  [metadata |-> [search_mode |-> mode, total_items |-> total,
                 last_processed_index |-> index, timestamp |-> now],
   results |-> rows]

\* save_final_results: DataFrame(results).to_csv, one row per record
CsvWrite(rows) == [state |-> "ok", data |-> rows]

\* a slice that does not skip the items before a
PySliceNoSkip(seq, a, b) ==
  SubSeq(seq, 1, IF b < Len(seq) THEN b ELSE Len(seq))

\* items[a:b]
PySlice(seq, a, b) ==
  IF a >= Len(seq) THEN <<>>
  ELSE SubSeq(seq, a + 1, IF b < Len(seq) THEN b ELSE Len(seq))

\* ------------------------------------------------------------------------
\* main(): one process run after the other
\* ------------------------------------------------------------------------
\* --limit: 0 stands for None (the code treats 0 as no limit too)
Limits == {0, CheckpointEvery}

\* args of a run with --cache-stats or --clear-cache, which ends after the
\* cache method
CacheCommandArgs(op) ==
  [resume |-> FALSE, limit |-> 0, no_cache |-> FALSE, dry_run |-> FALSE,
   workers |-> MAX_WORKERS, cache_op |-> op, skip_duplicates |-> FALSE]

ArgSets ==
  [resume : BOOLEAN, limit : Limits, no_cache : BOOLEAN, dry_run : BOOLEAN,
   workers : {1, MAX_WORKERS}, cache_op : {"none"},
   skip_duplicates : BOOLEAN]
    \cup {CacheCommandArgs(op) : op \in {"stats", "clear"}}

\* positions inside the try block of main()
TryStates ==
  {"loop", "item", "get_wait", "primary", "fallback", "store", "set_wait",
   "append", "ckpt_open", "ckpt_dump"}

\* the thread of main() is in no cache method
mainIdle ==
  /\ wpc' = [wpc EXCEPT ![Main] = "off"]
  /\ wop' = [wop EXCEPT ![Main] = NoArgs]
  /\ wret' = [wret EXCEPT ![Main] = NoEntry]

\* the thread of main() calls a cache method
mainCalls(call) ==
  /\ wpc' = [wpc EXCEPT ![Main] = "lock"]
  /\ wop' = [wop EXCEPT ![Main] = call]
  /\ wret' = wret

\* a new process started with --doi or --title (mode), whose input file is
\* file, and with one of the argument lists argsets: the globals are fresh, the
\* arguments are parsed, the signal handler is installed and
\* ResultCache(CACHE_FILE) loads the cache file
StartProcess(mode, file, argsets) ==
  /\ pc \in Stopped
  /\ runs < MaxRuns
  /\ runs' = runs + 1
  /\ prevRun' = IF pc = "off" THEN "none"
                ELSE IF interrupt_flag THEN "interrupted" ELSE "completed"
  /\ interruptedAt' = "none"
  /\ search_mode' = mode
  /\ inputFile' = file
  /\ \E a \in argsets :
       /\ args' = a
       /\ IF a.cache_op = "none"
          THEN pc' = "loading" /\ UNCHANGED threadVars
          ELSE /\ pc' = "cache_cmd"
               /\ mainCalls([op |-> a.cache_op, key |-> <<>>,
                             value |-> EmptyMap])
  /\ clock' = IF pc = "done" /\ clock < MaxClock THEN clock + 1 ELSE clock
  /\ cache' = LoadCache(cacheFile)
  /\ lock' = Unlocked
  /\ committed' = LoadCache(cacheFile)
  /\ lastSet' = LoadCache(cacheFile)
  /\ saveFailed' = FALSE
  /\ items' = <<>>
  /\ validation_report' = EmptyMap
  /\ start_index' = 0
  /\ existing_results' = <<>>
  /\ results' = <<>>
  /\ i' = 0
  /\ cur' = EmptyMap
  /\ interrupt_flag' = FALSE
  /\ requests_made' = 0
  /\ errors_count' = 0
  /\ cache_hits' = 0
  /\ UNCHANGED <<answers, crashOp, cacheFile, checkpointFile, outputFile,
                 reportFile>>

\* the tool is run again in the same mode on the same input file
StartRun == StartProcess(search_mode, inputFile, ArgSets)

\* --cache-stats / --clear-cache: the cache method has returned and main()
\* returns
CacheCommandDone ==
  /\ pc = "cache_cmd"
  /\ wpc[Main] = "ret"
  /\ pc' = "done"
  /\ mainIdle
  /\ UNCHANGED <<args, search_mode, items, validation_report, start_index,
                 existing_results, results, i, cur, interrupt_flag,
                 requests_made, errors_count, cache_hits, diskVars, envVars,
                 cacheVars, histVars, runHistVars>>

\* --resume, --limit, the slice of the working list, and the early return
\* when nothing is left to process
ResumeRestore ==
  /\ pc = "restoring"
  /\ LET restored == args.resume /\ CheckpointLoads(checkpointFile)
         si == IF restored
               THEN checkpointFile.data.metadata.last_processed_index
               ELSE 0
         er == IF restored THEN checkpointFile.data.results ELSE <<>>
         sliced == IF args.limit # 0
                   THEN PySlice(items, si, si + args.limit)
                   ELSE PySlice(items, si, Len(items))
     IN /\ start_index' = si
        /\ existing_results' = er
        /\ items' = sliced
        /\ IF sliced = <<>>
           THEN /\ outputFile' = IF er # <<>> THEN CsvWrite(er) ELSE outputFile
                /\ results' = results
                /\ pc' = "done"
           ELSE /\ outputFile' = outputFile
                /\ results' = er
                /\ pc' = "loop"
  /\ UNCHANGED <<args, search_mode, validation_report, i, cur, interrupt_flag,
                 requests_made, errors_count, cache_hits, inputFile, cacheFile,
                 checkpointFile, reportFile, envVars, cacheVars, threadVars,
                 histVars, runHistVars>>

\* the head of the for loop: the next item, or the end of the list
LoopNext ==
  /\ pc = "loop"
  /\ IF i < Len(items)
     THEN IF interrupt_flag
          THEN pc' = "finalizing" /\ i' = i + 1
          ELSE pc' = "item" /\ i' = i + 1
     ELSE pc' = "finalizing" /\ i' = i
  /\ cur' = EmptyMap
  /\ UNCHANGED <<args, search_mode, items, validation_report, start_index,
                 existing_results, results, interrupt_flag, requests_made,
                 errors_count, cache_hits, diskVars, envVars, cacheVars,
                 threadVars, histVars, runHistVars>>

\* process_*_item: cached_result = cache.get(item) if use_cache else None
ItemStart ==
  /\ pc = "item"
  /\ IF ~args.no_cache
     THEN /\ pc' = "get_wait"
          /\ mainCalls([op |-> "get", key |-> items[i], value |-> EmptyMap])
     ELSE /\ pc' = "primary"
          /\ UNCHANGED threadVars
  /\ UNCHANGED <<args, search_mode, items, validation_report, start_index,
                 existing_results, results, i, cur, interrupt_flag,
                 requests_made, errors_count, cache_hits, diskVars, envVars,
                 cacheVars, histVars, runHistVars>>

\* process_*_item: a cache hit is returned at once, a miss goes to the
\* primary service
ItemCached ==
  /\ pc = "get_wait"
  /\ wpc[Main] = "ret"
  /\ IF wret[Main] # NoEntry
     THEN /\ cache_hits' = cache_hits + 1
          /\ cur' = [title |-> FieldGet(wret[Main], "title"),
                     scopus_id |-> FieldGet(wret[Main], "scopus_id"),
                     doi |-> FieldGet(wret[Main], "doi"),
                     cached |-> TRUE]
          /\ pc' = "append"
     ELSE /\ cache_hits' = cache_hits
          /\ cur' = cur
          /\ pc' = "primary"
  /\ mainIdle
  /\ UNCHANGED <<args, search_mode, items, validation_report, start_index,
                 existing_results, results, i, interrupt_flag, requests_made,
                 errors_count, diskVars, envVars, cacheVars, histVars,
                 runHistVars>>

\* a primary call whose failure is raised and unwinds the loop
PrimaryCallRaising ==
  /\ pc = "primary"
  /\ IF interrupt_flag
     THEN /\ pc' = "finalizing"
          /\ UNCHANGED <<cur, requests_made, errors_count>>
     ELSE LET r == PrimaryResponse(AnswerOf(items[i])[1]) IN
          /\ requests_made' = requests_made + 1
          /\ errors_count' = IF r.failed THEN errors_count + 1 ELSE errors_count
          /\ cur' = [title |-> r.title, scopus_id |-> r.scopus_id,
                     doi |-> r.doi, cached |-> FALSE]
          /\ pc' = IF r.failed THEN "finalizing"
                   ELSE IF r.scopus_id = None THEN "fallback" ELSE "store"
  /\ UNCHANGED <<args, search_mode, items, validation_report, start_index,
                 existing_results, results, i, interrupt_flag, cache_hits,
                 diskVars, envVars, cacheVars, threadVars, histVars,
                 runHistVars>>

\* a primary call after which the fallback service is asked in any case
PrimaryCallThenFallback ==
  /\ pc = "primary"
  /\ IF interrupt_flag
     THEN /\ pc' = "finalizing"
          /\ UNCHANGED <<cur, requests_made, errors_count>>
     ELSE LET r == PrimaryResponse(AnswerOf(items[i])[1]) IN
          /\ requests_made' = requests_made + 1
          /\ errors_count' = IF r.failed THEN errors_count + 1 ELSE errors_count
          /\ cur' = [title |-> r.title, scopus_id |-> r.scopus_id,
                     doi |-> r.doi, cached |-> FALSE]
          /\ pc' = "fallback"
  /\ UNCHANGED <<args, search_mode, items, validation_report, start_index,
                 existing_results, results, i, interrupt_flag, cache_hits,
                 diskVars, envVars, cacheVars, threadVars, histVars,
                 runHistVars>>

\* search_scopus_api / search_scopus_api_title: the cancellation check, the
\* request, the counters
PrimaryCall ==
  /\ pc = "primary"
  /\ IF interrupt_flag
     THEN /\ pc' = "finalizing"
          /\ UNCHANGED <<cur, requests_made, errors_count>>
     ELSE LET r == PrimaryResponse(AnswerOf(items[i])[1]) IN
          /\ requests_made' = requests_made + 1
          /\ errors_count' = IF r.failed THEN errors_count + 1 ELSE errors_count
          /\ cur' = [title |-> r.title, scopus_id |-> r.scopus_id,
                     doi |-> r.doi, cached |-> FALSE]
          /\ pc' = IF r.scopus_id = None THEN "fallback" ELSE "store"
  /\ UNCHANGED <<args, search_mode, items, validation_report, start_index,
                 existing_results, results, i, interrupt_flag, cache_hits,
                 diskVars, envVars, cacheVars, threadVars, histVars,
                 runHistVars>>

\* a fallback call that does not count its request
FallbackCallUncounted ==
  /\ pc = "fallback"
  /\ IF interrupt_flag
     THEN /\ pc' = "finalizing"
          /\ UNCHANGED <<cur, requests_made, errors_count>>
     ELSE LET r == FallbackResponse(search_mode, AnswerOf(items[i])[2]) IN
          /\ requests_made' = requests_made
          /\ errors_count' = IF r.failed THEN errors_count + 1 ELSE errors_count
          /\ cur' = [cur EXCEPT !.title = r.title,
                                !.doi = IF search_mode = "title" THEN r.doi
                                        ELSE @]
          /\ pc' = "store"
  /\ UNCHANGED <<args, search_mode, items, validation_report, start_index,
                 existing_results, results, i, interrupt_flag, cache_hits,
                 diskVars, envVars, cacheVars, threadVars, histVars,
                 runHistVars>>

\* search_openalex_doi / search_openalex_title, called when the primary
\* service gave no Scopus ID: it replaces the title (and, by title, the DOI)
FallbackCall ==
  /\ pc = "fallback"
  /\ IF interrupt_flag
     THEN /\ pc' = "finalizing"
          /\ UNCHANGED <<cur, requests_made, errors_count>>
     ELSE LET r == FallbackResponse(search_mode, AnswerOf(items[i])[2]) IN
          /\ requests_made' = requests_made + 1
          /\ errors_count' = IF r.failed THEN errors_count + 1 ELSE errors_count
          /\ cur' = [cur EXCEPT !.title = r.title,
                                !.doi = IF search_mode = "title" THEN r.doi
                                        ELSE @]
          /\ pc' = "store"
  /\ UNCHANGED <<args, search_mode, items, validation_report, start_index,
                 existing_results, results, i, interrupt_flag, cache_hits,
                 diskVars, envVars, cacheVars, threadVars, histVars,
                 runHistVars>>

\* a write-back that does not look at the Scopus ID
StoreResultAlways ==
  /\ pc = "store"
  /\ IF ~args.no_cache
     THEN /\ pc' = "set_wait"
          /\ mainCalls([op |-> "set", key |-> items[i],
                        value |-> CacheValue(search_mode, cur)])
     ELSE /\ pc' = "append"
          /\ UNCHANGED threadVars
  /\ UNCHANGED <<args, search_mode, items, validation_report, start_index,
                 existing_results, results, i, cur, interrupt_flag,
                 requests_made, errors_count, cache_hits, diskVars, envVars,
                 cacheVars, histVars, runHistVars>>

\* if scopus_id and use_cache: cache.set(...); otherwise straight to
\* time.sleep(DELAY_BETWEEN_REQUESTS) and the return
StoreResult ==
  /\ pc = "store"
  /\ IF cur.scopus_id # None /\ ~args.no_cache
     THEN /\ pc' = "set_wait"
          /\ mainCalls([op |-> "set", key |-> items[i],
                        value |-> CacheValue(search_mode, cur)])
     ELSE /\ pc' = "append"
          /\ UNCHANGED threadVars
  /\ UNCHANGED <<args, search_mode, items, validation_report, start_index,
                 existing_results, results, i, cur, interrupt_flag,
                 requests_made, errors_count, cache_hits, diskVars, envVars,
                 cacheVars, histVars, runHistVars>>

\* cache.set has returned; time.sleep(DELAY_BETWEEN_REQUESTS) and the return
StoreDone ==
  /\ pc = "set_wait"
  /\ wpc[Main] = "ret"
  /\ pc' = "append"
  /\ mainIdle
  /\ UNCHANGED <<args, search_mode, items, validation_report, start_index,
                 existing_results, results, i, cur, interrupt_flag,
                 requests_made, errors_count, cache_hits, diskVars, envVars,
                 cacheVars, histVars, runHistVars>>

\* results.append({...}) and the test i % 10 == 0
AppendResult ==
  /\ pc = "append"
  /\ results' = Append(results, ResultRow(search_mode, items[i], cur))
  /\ pc' = IF i % CheckpointEvery = 0 THEN "ckpt_open" ELSE "loop"
  /\ UNCHANGED <<args, search_mode, items, validation_report, start_index,
                 existing_results, i, cur, interrupt_flag, requests_made,
                 errors_count, cache_hits, diskVars, envVars, cacheVars,
                 threadVars, histVars, runHistVars>>

\* save_checkpoint: open(CHECKPOINT_FILE, 'w') truncates the file
CheckpointOpen ==
  /\ pc = "ckpt_open"
  /\ checkpointFile' = TruncatedFile
  /\ pc' = "ckpt_dump"
  /\ UNCHANGED <<args, search_mode, items, validation_report, start_index,
                 existing_results, results, i, cur, interrupt_flag,
                 requests_made, errors_count, cache_hits, inputFile, cacheFile,
                 outputFile, reportFile, envVars, cacheVars, threadVars,
                 histVars, runHistVars>>

\* a save whose index counts the items of this run only
CheckpointDumpRelativeIndex ==
  /\ pc = "ckpt_dump"
  /\ checkpointFile' =
       JsonDump(CheckpointOf(search_mode, validation_report.total,
                             i, clock, results))
  /\ pc' = "loop"
  /\ UNCHANGED <<args, search_mode, items, validation_report, start_index,
                 existing_results, results, i, cur, interrupt_flag,
                 requests_made, errors_count, cache_hits, inputFile, cacheFile,
                 outputFile, reportFile, envVars, cacheVars, threadVars,
                 histVars, runHistVars>>

\* save_checkpoint: json.dump of the metadata and all results so far
CheckpointDump ==
  /\ pc = "ckpt_dump"
  /\ checkpointFile' =
       JsonDump(CheckpointOf(search_mode, validation_report.total,
                             start_index + i, clock, results))
  /\ pc' = "loop"
  /\ UNCHANGED <<args, search_mode, items, validation_report, start_index,
                 existing_results, results, i, cur, interrupt_flag,
                 requests_made, errors_count, cache_hits, inputFile, cacheFile,
                 outputFile, reportFile, envVars, cacheVars, threadVars,
                 histVars, runHistVars>>

\* the finally block: save_final_results(results, search_mode)
Finalize ==
  /\ pc = "finalizing"
  /\ outputFile' = CsvWrite(results)
  /\ pc' = "done"
  /\ UNCHANGED <<args, search_mode, items, validation_report, start_index,
                 existing_results, results, i, cur, interrupt_flag,
                 requests_made, errors_count, cache_hits, inputFile, cacheFile,
                 checkpointFile, reportFile, envVars, cacheVars, threadVars,
                 histVars, runHistVars>>

\* a handler that sets interrupt_flag and sends main() back to the head of
\* the loop, dropping the item in flight
InterruptToLoopHead ==
  /\ pc \notin Stopped
  /\ ~interrupt_flag
  /\ interrupt_flag' = TRUE
  /\ interruptedAt' = pc
  /\ pc' = IF pc \in TryStates THEN "loop" ELSE "done"
  /\ lock' = Unlocked
  /\ mainIdle
  /\ UNCHANGED <<args, search_mode, items, validation_report, start_index,
                 existing_results, results, i, cur, requests_made, errors_count,
                 cache_hits, cache, diskVars, envVars, histVars, runs, prevRun>>

\* a handler that only sets interrupt_flag and lets main() go on until it
\* next tests the flag
InterruptDeferred ==
  /\ pc \notin Stopped
  /\ ~interrupt_flag
  /\ interrupt_flag' = TRUE
  /\ interruptedAt' = pc
  /\ UNCHANGED <<pc, args, search_mode, items, validation_report, start_index,
                 existing_results, results, i, cur, requests_made, errors_count,
                 cache_hits, cacheVars, threadVars, diskVars, envVars, histVars,
                 runs, prevRun>>

\* SIGINT: signal_handler sets interrupt_flag and calls sys.exit(0); the
\* SystemExit unwinds whatever main() is doing (leaving a file it was writing
\* as it is), runs the finally block when it is raised inside the try block,
\* and ends the process.  Raised inside the finally block it ends
\* save_final_results before the report is opened or while it is written.
\* interruptedAt keeps the position of the first SIGINT of the run.
Interrupt ==
  /\ pc \notin Stopped
  /\ interrupt_flag' = TRUE
  /\ interruptedAt' = IF interrupt_flag THEN interruptedAt ELSE pc
  /\ pc' = IF pc \in TryStates THEN "finalizing" ELSE "done"
  /\ outputFile' \in IF pc = "finalizing" THEN {outputFile, TruncatedFile}
                     ELSE {outputFile}
  /\ lock' = Unlocked
  /\ mainIdle
  /\ UNCHANGED <<args, search_mode, items, validation_report, start_index,
                 existing_results, results, i, cur, requests_made, errors_count,
                 cache_hits, cache, inputFile, cacheFile, checkpointFile,
                 reportFile, envVars, histVars, runs, prevRun>>

\* ------------------------------------------------------------------------
\* The input files of the pipeline and its specification
\* ------------------------------------------------------------------------
\* item k of dois.txt ("10.1234/dNN") or of titles.txt ("title no NN")
ItemName(mode, k) ==
  (IF mode = "doi" THEN <<"1", "0", ".", "1", "2", "3", "4", "/", "d">>
   ELSE <<"t", "i", "t", "l", "e", " ", "n", "o", " ">>)
    \o <<DigitSeq[(k \div 10) + 1], DigitSeq[(k % 10) + 1]>>

\* the same item in another case: a duplicate of it
ItemNameUpper(mode, k) ==
  (IF mode = "doi" THEN <<"1", "0", ".", "1", "2", "3", "4", "/", "D">>
   ELSE <<"T", "i", "t", "l", "e", " ", "n", "o", " ">>)
    \o <<DigitSeq[(k \div 10) + 1], DigitSeq[(k % 10) + 1]>>

\* n distinct items; a dirty file also holds a blank line, a malformed item
\* and a padded duplicate of the first item after its first line
InputLines(mode, n, dirty) ==
  LET clean == [k \in 1..n |-> ItemName(mode, k)] IN
  IF dirty /\ n > 0
  THEN <<clean[1], <<" ">>, <<"b", "a", "d">>,
         <<" ">> \o ItemNameUpper(mode, 1)>> \o Tail(clean)
  ELSE clean

\* numbers of distinct items of the short files: none, a few
ShortSizes == {0, 2}

\* number of distinct items of the long file: past the first checkpoint
LongSize == CheckpointEvery + MaxExtra

\* the short files, clean and dirty
ShortFiles(mode) ==
  {JsonDump(InputLines(mode, n, dirty)) : n \in ShortSizes, dirty \in BOOLEAN}

\* no input file, the short files, and the long dirty file
InputFiles(mode) ==
  {AbsentFile} \cup ShortFiles(mode)
    \cup {JsonDump(InputLines(mode, LongSize, TRUE))}

\* a machine on which the tool has not run yet
Init ==
  /\ search_mode \in {"doi", "title"}
  /\ inputFile \in InputFiles(search_mode)
  /\ answers \in 0..MaxSeed
  /\ cacheFile = AbsentFile
  /\ checkpointFile = AbsentFile
  /\ outputFile = AbsentFile
  /\ reportFile = AbsentFile
  /\ clock = 0
  /\ cache = EmptyMap
  /\ lock = Unlocked
  /\ wpc = [w \in Threads |-> "off"]
  /\ wop = [w \in Threads |-> NoArgs]
  /\ wret = [w \in Threads |-> NoEntry]
  /\ pc = "off"
  /\ args = EmptyMap
  /\ items = <<>>
  /\ validation_report = EmptyMap
  /\ start_index = 0
  /\ existing_results = <<>>
  /\ results = <<>>
  /\ i = 0
  /\ cur = EmptyMap
  /\ interrupt_flag = FALSE
  /\ requests_made = 0
  /\ errors_count = 0
  /\ cache_hits = 0
  /\ runs = 0
  /\ interruptedAt = "none"
  /\ prevRun = "none"
  /\ committed = EmptyMap
  /\ lastSet = EmptyMap
  /\ saveFailed = FALSE
  /\ crashOp = "alive"

\* a step of main() inside the try block or its finally block
ProcessingStep ==
  \/ LoopNext
  \/ ItemStart
  \/ CacheStep(Main)
  \/ ItemCached
  \/ PrimaryCall
  \/ FallbackCall
  \/ StoreResult
  \/ StoreDone
  \/ AppendResult
  \/ CheckpointOpen
  \/ CheckpointDump
  \/ Finalize

\* a step of the process running main()
MainStep ==
  \/ CacheCommandDone
  \/ LoadItems
  \/ ValidateInput
  \/ ResumeRestore
  \/ ProcessingStep

Next ==
  \/ StartRun
  \/ MainStep
  \/ Interrupt

Spec == Init /\ [][Next]_vars

\* a process that has entered the try block keeps running until it ends: its
\* steps are not postponed forever
SpecFair == Spec /\ WF_vars(ProcessingStep)

\* ------------------------------------------------------------------------
\* Runs that change between --doi and --title, over dois.txt and titles.txt
\* of two checkpoints' worth of items and more
\* ------------------------------------------------------------------------
\* args of a run without the cache, fresh or resumed, limited or not
ModeArgs ==
  {[resume |-> r, limit |-> l, no_cache |-> TRUE, dry_run |-> FALSE,
    workers |-> MAX_WORKERS, cache_op |-> "none", skip_duplicates |-> FALSE] :
     r \in BOOLEAN, l \in Limits}

\* dois.txt or titles.txt: clean, long enough for a resumed run to write a
\* checkpoint of its own
ModeFile(mode) ==
  JsonDump(InputLines(mode, 2 * CheckpointEvery + MaxExtra, FALSE))

\* the tool is run with --doi or with --title
StartRunInMode ==
  \E mode \in {"doi", "title"} : StartProcess(mode, ModeFile(mode), ModeArgs)

\* a machine on which the tool has not run yet
InitModes ==
  /\ inputFile = ModeFile("doi")
  /\ answers = 0
  /\ cacheFile = AbsentFile
  /\ checkpointFile = AbsentFile
  /\ outputFile = AbsentFile
  /\ reportFile = AbsentFile
  /\ clock = 0
  /\ cache = EmptyMap
  /\ lock = Unlocked
  /\ wpc = [w \in Threads |-> "off"]
  /\ wop = [w \in Threads |-> NoArgs]
  /\ wret = [w \in Threads |-> NoEntry]
  /\ MainOff
  /\ committed = EmptyMap
  /\ lastSet = EmptyMap
  /\ saveFailed = FALSE
  /\ crashOp = "alive"

NextModes ==
  \/ StartRunInMode
  \/ LoadItems
  \/ ValidateInput
  \/ ResumeRestore
  \/ LoopNext
  \/ ItemStart
  \/ PrimaryCall
  \/ FallbackCall
  \/ StoreResult
  \/ AppendResult
  \/ CheckpointOpen
  \/ CheckpointDump
  \/ Finalize
  \/ Interrupt

SpecModes == InitModes /\ [][NextModes]_vars

\* ------------------------------------------------------------------------
\* One run over two items that the services answer in any pair of ways
\* ------------------------------------------------------------------------
\* args of a plain run, with or without the cache
LookupArgs ==
  {[resume |-> FALSE, limit |-> 0, no_cache |-> b, dry_run |-> FALSE,
    workers |-> MAX_WORKERS, cache_op |-> "none", skip_duplicates |-> FALSE] :
     b \in BOOLEAN}

\* main() is about to load a clean file of two items on a machine without
\* cache, checkpoint or report
InitLookup ==
  /\ search_mode \in {"doi", "title"}
  /\ inputFile = JsonDump(InputLines(search_mode, 2, FALSE))
  /\ answers \in 0..(Len(AnswerKinds) - 1)
  /\ args \in LookupArgs
  /\ cacheFile = AbsentFile
  /\ checkpointFile = AbsentFile
  /\ outputFile = AbsentFile
  /\ reportFile = AbsentFile
  /\ clock = 0
  /\ cache = EmptyMap
  /\ lock = Unlocked
  /\ wpc = [w \in Threads |-> "off"]
  /\ wop = [w \in Threads |-> NoArgs]
  /\ wret = [w \in Threads |-> NoEntry]
  /\ pc = "loading"
  /\ items = <<>>
  /\ validation_report = EmptyMap
  /\ start_index = 0
  /\ existing_results = <<>>
  /\ results = <<>>
  /\ i = 0
  /\ cur = EmptyMap
  /\ interrupt_flag = FALSE
  /\ requests_made = 0
  /\ errors_count = 0
  /\ cache_hits = 0
  /\ committed = EmptyMap
  /\ lastSet = EmptyMap
  /\ saveFailed = FALSE
  /\ crashOp = "alive"
  /\ runs = 1
  /\ interruptedAt = "none"
  /\ prevRun = "none"

NextLookup ==
  \/ LoadItems
  \/ ValidateInput
  \/ ResumeRestore
  \/ LoopNext
  \/ ItemStart
  \/ CacheAcquire(Main)
  \/ CacheGetBody(Main)
  \/ CacheSetBody(Main)
  \/ SaveOpen(Main)
  \/ SaveDump(Main)
  \/ CacheRelease(Main)
  \/ ItemCached
  \/ PrimaryCall
  \/ FallbackCall
  \/ StoreResult
  \/ StoreDone
  \/ AppendResult
  \/ Finalize
  \/ Interrupt

SpecLookup == InitLookup /\ [][NextLookup]_vars

\* ------------------------------------------------------------------------
\* Claims about the cache
\* ------------------------------------------------------------------------
\* a set or clear is between taking the lock and releasing it
Mutating(w) == InSection(w) /\ wop[w].op \in {"set", "clear"}

\* C5: after the process died during Cache.set (or between calls), with no
\* save having failed, the cache file still yields an entry for every key
\* whose set call had returned.  The code truncates the file in place before
\* it rewrites it, so this is violated.
C5_CommittedSurviveCrash ==
  (crashOp \in {"set", "none"} /\ ~saveFailed) =>
    \A k \in DOMAIN committed : k \in DOMAIN LoadCache(cacheFile)

\* C6: a get that follows set(k, v), with no later set of the same normalized
\* key and no clear in between, returns every field of v and a cached_at
\* stamp; a get of a key whose normalized form holds no entry returns None.
C6_RoundTrip ==
  \A w \in Threads :
    (wpc[w] = "unlock" /\ wop[w].op = "get") =>
      LET nk == NormalizeKey(wop[w].key) IN
      IF nk \in DOMAIN lastSet
      THEN /\ wret[w] # NoEntry
           /\ "cached_at" \in DOMAIN wret[w]
           /\ \A f \in DOMAIN lastSet[nk] :
                f \in DOMAIN wret[w] /\ wret[w][f] = lastSet[nk][f]
      ELSE wret[w] = NoEntry

\* a get under "X" has returned the value that was set under " x"
C6_Witness ==
  \E w \in Workers :
    /\ wpc[w] = "unlock" /\ wop[w].op = "get" /\ wop[w].key = <<"X">>
    /\ wret[w] # NoEntry
    /\ wret[w].title = "T1"

\* C7: while no set or clear is under way and the last save did not fail, the
\* cache file read back equals the in-memory dict; when a set is about to
\* return after a successful save the file holds the entry under the
\* normalized key, and when a clear is about to return it holds the empty dict.
C7_WriteThrough ==
  /\ (crashOp = "alive" /\ ~saveFailed /\ \A w \in Threads : ~Mutating(w)) =>
       LoadCache(cacheFile) = cache
  /\ \A w \in Threads :
       (wpc[w] = "unlock" /\ ~saveFailed) =>
         /\ wop[w].op = "set" =>
              /\ cacheFile.state = "ok"
              /\ NormalizeKey(wop[w].key) \in DOMAIN cacheFile.data
              /\ cacheFile.data[NormalizeKey(wop[w].key)]
                   = StampValue(wop[w].value, clock)
         /\ wop[w].op = "clear" => cacheFile = JsonDump(EmptyMap)

\* a set is about to return and the file already holds two entries
C7_Witness ==
  \E w \in Workers :
    /\ wpc[w] = "unlock" /\ wop[w].op = "set" /\ ~saveFailed
    /\ cacheFile.state = "ok"
    /\ Cardinality(DOMAIN cacheFile.data) = 2

\* C8: at most one thread is inside a locked section of the cache, and it is
\* the one that holds the lock; so no get runs while a set or clear is under
\* way, and no two writes of the file overlap.
C8_MutualExclusion ==
  /\ Cardinality({w \in Threads : InSection(w)}) <= 1
  /\ \A w \in Threads : InSection(w) => lock = w

\* one thread is rewriting the file while another waits for the lock to get
C8_Witness ==
  \E w1 \in Workers, w2 \in Workers :
    /\ w1 # w2
    /\ wpc[w1] = "save_dump"
    /\ wpc[w2] = "lock" /\ wop[w2].op = "get"

\* ------------------------------------------------------------------------
\* Claims about validation
\* ------------------------------------------------------------------------
\* the list validate_batch was given: the loaded items
LoadedItems == StripLines(inputFile.data)

ScenarioX == <<"1", "0", ".", "1", "2", "3", "4", "/", "X">>
ScenarioBad == <<"b", "a", "d">>

\* C9: in the validation report no line number listed among the invalid
\* entries is also listed among the duplicate entries.  The duplicate entries
\* carry positions of the valid sublist (see C10), so this is violated.
C9_InvalidNeverDuplicate ==
  pc = "done" =>
    \A inv \in DOMAIN validation_report.invalid_items :
      \A dup \in DOMAIN validation_report.duplicate_items :
        validation_report.invalid_items[inv][1]
          # validation_report.duplicate_items[dup][1]

\* C10: every duplicate entry (line, raw value, first-seen line) holds 1-based
\* positions of the list given to validate_batch: the item at `line` is the
\* raw value and the item at `first-seen line` is an earlier occurrence of the
\* same normalized item; for [X, bad, X] in DOI mode the report is total 3,
\* invalid 1 (line 2), unique 1, line 3 a duplicate of line 1, working list [X].
C10_DuplicateLineNumbers ==
  pc = "done" =>
    /\ \A d \in DOMAIN validation_report.duplicate_items :
         LET e == validation_report.duplicate_items[d] IN
         /\ e[1] \in 1..Len(LoadedItems)
         /\ LoadedItems[e[1]] = e[2]
         /\ e[3] \in 1..(e[1] - 1)
         /\ NormalizeItem(LoadedItems[e[3]]) = NormalizeItem(e[2])
    /\ (search_mode = "doi"
          /\ LoadedItems = <<ScenarioX, ScenarioBad, ScenarioX>>) =>
         /\ validation_report.total = 3
         /\ validation_report.invalid = 1
         /\ validation_report.invalid_items[1][1] = 2
         /\ validation_report.unique = 1
         /\ validation_report.duplicate_items = <<<<3, ScenarioX, 1>>>>
         /\ items = <<ScenarioX>>

\* ------------------------------------------------------------------------
\* Claims about the pipeline
\* ------------------------------------------------------------------------
\* the unique, validity-filtered working list of the input file
WorkingList ==
  IF FileExists(inputFile)
  THEN validate_batch(StripLines(inputFile.data), search_mode).unique_items
  ELSE <<>>

\* the complete record of an item: what its lookups give
ExpectedRow(item) ==
  ResultRow(search_mode, item, LookupItem(search_mode, item))

\* the rows of one uninterrupted pass over the whole working list
ExpectedRows ==
  LET list == WorkingList IN [j \in 1..Len(list) |-> ExpectedRow(list[j])]

\* the identifier a record carries
IdOf(row) == IF search_mode = "doi" THEN row.doi ELSE row.search_title

\* positions of main() between the head of the loop body and the append
InFlight ==
  {"item", "get_wait", "primary", "fallback", "store", "set_wait", "append"}

\* the number of items of this run whose record has been appended when main()
\* is at position p
CompletedAt(p) == IF p \in InFlight THEN i - 1 ELSE i

\* C1: a run without --limit that ends without being interrupted leaves the
\* same output report whether it started from nothing or resumed, with
\* --resume, what earlier runs on the same input left behind at whatever
\* point they were interrupted: one row per item of the working list, in
\* order, none twice and none missing.
C1_ResumeIdempotence ==
  (pc = "done" /\ ~interrupt_flag /\ args.cache_op = "none" /\ ~args.dry_run
     /\ args.limit = 0 /\ WorkingList # <<>>) =>
    outputFile = CsvWrite(ExpectedRows)

\* a run that resumed behind the checkpoint of an interrupted run has ended
C1_Witness ==
  /\ pc = "done" /\ ~interrupt_flag /\ args.cache_op = "none"
  /\ ~args.dry_run /\ args.limit = 0
  /\ args.resume /\ prevRun = "interrupted"
  /\ start_index = CheckpointEvery
  /\ Len(WorkingList) > CheckpointEvery
  /\ Len(results) = Len(WorkingList)
  /\ outputFile = CsvWrite(ExpectedRows)

\* C2: during Processing and at Finalizing the accumulator holds one record
\* per processed item: restored records plus those appended by this run; the
\* j-th record is a record of the run's mode and carries the j-th item of the
\* working list; every recorded item is valid and no two records carry the
\* same normalized item; whatever --workers is.
C2_OrderedOnePerItem ==
  pc \in TryStates \cup {"finalizing"} =>
    LET unique_items == validation_report.unique_items
        done == IF pc = "finalizing"
                THEN IF interrupt_flag THEN CompletedAt(interruptedAt) ELSE i
                ELSE CompletedAt(pc)
    IN /\ Len(results) = Len(existing_results) + done
       /\ Len(results) <= Len(unique_items)
       /\ \A j \in 1..Len(results) :
            /\ DOMAIN results[j] = RowFields(search_mode)
            /\ IdOf(results[j]) = unique_items[j]
            /\ IF search_mode = "doi"
               THEN validate_doi(IdOf(results[j]))[1]
               ELSE validate_title(IdOf(results[j]))[1]
            /\ \A k \in 1..(j - 1) :
                 NormalizeItem(IdOf(results[k]))
                   # NormalizeItem(IdOf(results[j]))

\* C3: once the interrupt has arrived during Processing the run is at
\* Finalizing or over, so no further item is started; the accumulator holds
\* the restored records and one complete record for each item whose lookups
\* had finished, and none for the item that was in flight.
C3_InterruptKeepsCompleteRecords ==
  (interrupt_flag /\ interruptedAt \in TryStates) =>
    LET unique_items == validation_report.unique_items IN
    /\ pc \in {"finalizing", "done"}
    /\ Len(results) = Len(existing_results) + CompletedAt(interruptedAt)
    /\ Len(results) <= Len(unique_items)
    /\ \A j \in 1..Len(results) : results[j] = ExpectedRow(unique_items[j])
    /\ interruptedAt \in InFlight =>
         \A j \in 1..Len(results) : IdOf(results[j]) # items[i]

\* the interrupt arrived between the two lookups of the third item or later
C3_Witness ==
  /\ interrupt_flag /\ interruptedAt = "fallback"
  /\ pc = "finalizing"
  /\ cur.title # None
  /\ Len(results) >= 2

\* C4: a run that is in Processing reaches Finalizing, interrupted or not,
\* and a run in Finalizing ends with the output report holding every record
\* accumulated so far.  The first half holds; a SIGINT that arrives during
\* Finalizing ends the run with the report unwritten or cut short, so the
\* second half is violated.
C4_ReachesDoneAndFlushes ==
  /\ (pc \in TryStates) ~> (pc = "finalizing")
  /\ (pc = "finalizing") ~> (pc = "done" /\ outputFile = CsvWrite(results))

\* ------------------------------------------------------------------------
\* Claims about the validator functions and the cache keys
\* ------------------------------------------------------------------------
\* lowercase and trim, as the specification words it
Normalized(s) == Strip(Lower(s))

\* 1-based positions of the first occurrence of each normalized key
FirstPositions(list) ==
  {k \in 1..Len(list) :
     \A j \in 1..(k - 1) : Normalized(list[j]) # Normalized(list[k])}

\* the m-th smallest member of a set of positions
NthOf(S, m) == CHOOSE k \in S : Cardinality({j \in S : j <= k}) = m

ExampleDuplicates ==
  <<<<"1", "0", ".", "1", "/", "A">>, <<"1", "0", ".", "1", "/", "a">>,
    <<"1", "0", ".", "1", "/", "B">>>>

\* C11: detect_duplicates(items) keeps the first occurrence of each
\* normalized key: unique lists these first occurrences in input order, with
\* pairwise distinct keys; each later occurrence gives one duplicate record
\* (its 1-based position, its raw value, the 1-based position of the first
\* occurrence), in input order; len(unique) + len(duplicates) = len(items);
\* and ["10.1/A", "10.1/a", "10.1/B"] gives unique ["10.1/A", "10.1/B"] and
\* duplicates [(2, "10.1/a", 1)].
C11_DetectDuplicatesPartition ==
  pc = "detected" =>
    LET unique == validation_report.unique_items
        duplicates == validation_report.duplicate_items
        first == FirstPositions(items)
        later == (1..Len(items)) \ first
    IN /\ Len(unique) + Len(duplicates) = Len(items)
       /\ Len(unique) = Cardinality(first)
       /\ \A m \in 1..Len(unique) : unique[m] = items[NthOf(first, m)]
       /\ \A m \in 1..Len(unique) : \A n \in 1..(m - 1) :
            Normalized(unique[n]) # Normalized(unique[m])
       /\ Len(duplicates) = Cardinality(later)
       /\ \A m \in 1..Len(duplicates) :
            LET e == duplicates[m] IN
            /\ e[1] = NthOf(later, m)
            /\ e[2] = items[e[1]]
            /\ e[3] \in first
            /\ e[3] < e[1]
            /\ Normalized(items[e[3]]) = Normalized(e[2])
       /\ items = ExampleDuplicates =>
            /\ unique = <<ExampleDuplicates[1], ExampleDuplicates[3]>>
            /\ duplicates = <<<<2, ExampleDuplicates[2], 1>>>>

\* detect_duplicates has returned for ["10.1/A", "10.1/a", "10.1/B"]
C11_Witness ==
  /\ pc = "detected"
  /\ items = ExampleDuplicates
  /\ Len(validation_report.duplicate_items) = 1

\* ------------------------------------------------------------------------
\* Claims about the working set
\* ------------------------------------------------------------------------
\* an item the validator of the search mode accepts
IsValidItem(s) ==
  IF search_mode = "doi" THEN validate_doi(s)[1] ELSE validate_title(s)[1]

\* the valid lines of the input file, in order
ValidLines == SelectSeq(StripLines(inputFile.data), IsValidItem)

\* the unique, validity-filtered list: the first occurrence of each
\* normalized key among the valid lines, in order
UniqueValidLines ==
  LET first == FirstPositions(ValidLines) IN
  [m \in 1..Cardinality(first) |-> ValidLines[NthOf(first, m)]]

PrimaryGivesId(item) == AnswerOf(item)[1] = "found"

\* the number of requests the first n items need when none is cached: one to
\* the primary service, and one to the fallback service when the primary
\* service gave no Scopus ID
RECURSIVE RequestsFor(_, _)
RequestsFor(list, n) ==
  IF n = 0 THEN 0
  ELSE RequestsFor(list, n - 1) + (IF PrimaryGivesId(list[n]) THEN 1 ELSE 2)

\* main() is past the lookups of item i
AfterLookups == {"store", "set_wait", "append"}

\* C13: for an item that misses the cache, in both modes, the primary service
\* is asked first; the fallback service is asked exactly when the primary
\* answer carried no Scopus ID (no match, 401, 429, other status, transport
\* error); the record's Scopus ID is the primary one, null when the primary
\* service gave none, whatever the fallback service answers; after a 429 of
\* the primary service the error counter has been incremented.
C13_FallbackIffNoScopusId ==
  /\ pc = "primary" => requests_made = RequestsFor(items, i - 1)
  /\ pc = "fallback" =>
       /\ ~PrimaryGivesId(items[i])
       /\ requests_made = RequestsFor(items, i - 1) + 1
       /\ cur.scopus_id = None
       /\ AnswerOf(items[i])[1] = "429" => errors_count >= 1
       /\ (AnswerOf(items[i])[1] = "429" /\ i = 1) => errors_count = 1
  /\ (pc \in AfterLookups /\ ~cur.cached) =>
       /\ requests_made = RequestsFor(items, i)
       /\ cur.scopus_id = None <=> ~PrimaryGivesId(items[i])
  /\ pc \in TryStates \cup {"finalizing"} =>
       \A j \in 1..Len(results) :
         results[j].scopus_id = None <=> ~PrimaryGivesId(items[j])

\* the primary service answered 429 for the first item, the fallback service
\* found a title, and the record is about to be appended without Scopus ID
C13_Witness ==
  /\ pc = "append" /\ i = 1
  /\ AnswerOf(items[1]) = <<"429", "found">>
  /\ requests_made = 2
  /\ errors_count = 1
  /\ cur.scopus_id = None
  /\ cur.title # None

\* the fallback service answers this item with a title
FallbackGivesTitle(item) == AnswerOf(item)[2] = "found"

\* the title field of a record
TitleOf(row) == IF search_mode = "doi" THEN row.title ELSE row.found_title

\* C14: whatever the primary and the fallback service answer for an item (no
\* match, 401, 429, other status, transport error), the lookups return, one
\* row is appended for the item, with null title and Scopus ID where nothing
\* was found, and the loop goes on to the next item: the loop is left before
\* the end of the list only when the run has been interrupted.
C14_FailuresKeepBatchGoing ==
  /\ pc \in TryStates => Len(results) = CompletedAt(pc)
  /\ (pc \in {"finalizing", "done"} /\ Len(results) < Len(items)) =>
       interrupt_flag
  /\ (pc = "finalizing" /\ ~interrupt_flag) =>
       /\ i = Len(items)
       /\ Len(results) = Len(items)
  /\ pc \in TryStates \cup {"finalizing"} =>
       \A j \in 1..Len(results) :
         /\ IdOf(results[j]) = items[j]
         /\ TitleOf(results[j]) = None <=>
              (~PrimaryGivesId(items[j]) /\ ~FallbackGivesTitle(items[j]))

\* both services failed with a transport error for the first item and the run
\* has gone through the whole list
C14_Witness ==
  /\ pc = "finalizing" /\ ~interrupt_flag
  /\ AnswerOf(items[1]) = <<"exc", "exc">>
  /\ Len(results) = 2
  /\ results[1].scopus_id = None
  /\ TitleOf(results[1]) = None
  /\ errors_count >= 2

\* ------------------------------------------------------------------------
\* Claims about a missing input file
\* ------------------------------------------------------------------------
\* C15: while the input file is absent a run that loads it ends at Loading:
\* main() never gets to Validating or beyond, no request is counted, and no
\* checkpoint, cache entry, validation report or output report exists.
C15_MissingInputAborts ==
  ~FileExists(inputFile) =>
    /\ pc \in {"off", "cache_cmd", "loading", "done"}
    /\ requests_made = 0
    /\ results = <<>>
    /\ cache = EmptyMap
    /\ LoadCache(cacheFile) = EmptyMap
    /\ checkpointFile = AbsentFile
    /\ reportFile = AbsentFile
    /\ outputFile = AbsentFile

\* a run that was to process the missing file has ended without interrupt
C15_Witness ==
  /\ ~FileExists(inputFile)
  /\ pc = "done" /\ ~interrupt_flag
  /\ args.cache_op = "none" /\ ~args.dry_run
  /\ items = <<>>

\* ------------------------------------------------------------------------
\* Claims about cache persistence failures
\* ------------------------------------------------------------------------
\* C16: a set or clear is about to return with the dict in its new state
\* whether or not the save failed; while the last save has failed, a get
\* still returns the fields of the last value set under its key, also when
\* the file does not hold it; and a process that starts on a missing or
\* unreadable cache file starts with the empty dict, on a readable one with
\* its content, and its threads can call the cache.
C16_PersistenceFailuresNonFatal ==
  /\ [](\A w \in Threads :
          /\ (wpc[w] = "unlock" /\ wop[w].op = "set") =>
               LET nk == NormalizeKey(wop[w].key) IN
               /\ nk \in DOMAIN cache
               /\ \A f \in DOMAIN wop[w].value : cache[nk][f] = wop[w].value[f]
          /\ (wpc[w] = "unlock" /\ wop[w].op = "clear") => cache = EmptyMap
          /\ (wpc[w] = "unlock" /\ wop[w].op = "get" /\ saveFailed) =>
               LET nk == NormalizeKey(wop[w].key) IN
               nk \in DOMAIN lastSet =>
                 /\ wret[w] # NoEntry
                 /\ \A f \in DOMAIN lastSet[nk] : wret[w][f] = lastSet[nk][f])
  /\ [][(crashOp # "alive" /\ crashOp' = "alive") =>
          /\ cache' = IF cacheFile.state = "ok" THEN cacheFile.data
                      ELSE EmptyMap
          /\ \A w \in Workers : wpc'[w] = "idle"]_vars

\* after a failed save a get returns an entry that the file does not hold
C16_Witness ==
  \E w \in Workers :
    /\ wpc[w] = "unlock" /\ wop[w].op = "get" /\ saveFailed
    /\ wret[w] # NoEntry
    /\ NormalizeKey(wop[w].key) \notin DOMAIN LoadCache(cacheFile)

\* ------------------------------------------------------------------------
\* Claims about validate_doi and validate_title
\* ------------------------------------------------------------------------
\* s without its leading and trailing blanks
Trimmed(s) ==
  LET inner == {k \in 1..Len(s) : s[k] # " "} IN
  IF inner = {} THEN <<>>
  ELSE SubSeq(s, CHOOSE k \in inner : \A j \in inner : k <= j,
              CHOOSE k \in inner : \A j \in inner : k >= j)

\* the characters allowed after the slash of a DOI, in either case
AllowedDoiChars ==
  {"-", ".", "_", ";", "(", ")", "/", ":",
   "0", "1", "2", "3", "4", "5", "6", "7", "8", "9",
   "A", "B", "D", "T", "X", "Y",
   "a", "b", "d", "t", "x", "y", "i", "l", "e", "n", "o", "j", "s", "f"}

\* the grammar 10.<4-9 digits>/<one or more allowed characters>
DoiGrammar(s) ==
  \E n \in 4..9 :
    /\ Len(s) >= n + 5
    /\ SubSeq(s, 1, 3) = <<"1", "0", ".">>
    /\ \A k \in 4..(n + 3) :
         s[k] \in {"0", "1", "2", "3", "4", "5", "6", "7", "8", "9"}
    /\ s[n + 4] = "/"
    /\ \A k \in (n + 5)..Len(s) : s[k] \in AllowedDoiChars

ExampleDoi ==
  <<"1", "0", ".", "1", "0", "1", "6", "/", "j", ".", "s", "o", "f", "t",
    "x", ".", "2", "0", "1", "9", ".", "1", "0", "0", "2", "6", "3">>
ExampleNotDoi == <<"n", "o", "t", "-", "a", "-", "d", "o", "i">>

\* C17: validate_doi(s) gives the empty-DOI error when s is blank after
\* trimming, the format error when the trimmed s is not of the grammar
\* 10.<4-9 digits>/<one or more allowed characters>, and valid otherwise;
\* "10.1016/j.softx.2019.100263" is valid, "not-a-doi" a format error and ""
\* an empty-DOI error.
C17_ValidateDoi ==
  pc = "validated" =>
    \A k \in 1..Len(items) :
      LET s == items[k]
          verdict == validation_report.doi[k]
      IN /\ Trimmed(s) = <<>> => verdict = <<FALSE, "Empty DOI">>
         /\ (Trimmed(s) # <<>> /\ ~DoiGrammar(Trimmed(s))) =>
              verdict = <<FALSE, "Invalid DOI format">>
         /\ DoiGrammar(Trimmed(s)) => verdict = <<TRUE, "">>
         /\ s = ExampleDoi => verdict[1]
         /\ s = ExampleNotDoi => verdict = <<FALSE, "Invalid DOI format">>
         /\ s = <<>> => verdict = <<FALSE, "Empty DOI">>

\* the three examples have been validated in one call
C17_Witness ==
  /\ pc = "validated"
  /\ items = <<ExampleDoi, ExampleNotDoi, <<>>>>
  /\ validation_report.doi[1][1]
  /\ ~validation_report.doi[2][1]

\* C18: validate_title(s) is valid exactly when the trimmed s has at least 10
\* characters: blank input gives the empty-title error, a trimmed length of 1
\* to 9 the too-short error, and a trimmed length of exactly 10 is valid.
C18_ValidateTitle ==
  pc = "validated" =>
    \A k \in 1..Len(items) :
      LET n == Len(Trimmed(items[k]))
          verdict == validation_report.title[k]
      IN /\ verdict[1] <=> n >= 10
         /\ n = 0 => verdict = <<FALSE, "Empty title">>
         /\ n \in 1..9 => verdict = <<FALSE, "Title too short">>
         /\ n = 10 => verdict = <<TRUE, "">>

\* a title of 9 characters after trimming and titles of 10 have been validated
C18_Witness ==
  /\ pc = "validated"
  /\ Len(items) = 3
  /\ Len(items[1]) = 11 /\ Len(Trimmed(items[1])) = 9
  /\ Len(Trimmed(items[2])) = 10
  /\ Len(items[3]) = 11 /\ Len(Trimmed(items[3])) = 10
  /\ ~validation_report.title[1][1]
  /\ validation_report.title[2][1]
  /\ validation_report.title[3][1]

\* ------------------------------------------------------------------------
\* Claims about the normalized key
\* ------------------------------------------------------------------------
\* C19: duplicate detection and the cache normalize an identifier the same
\* way, and normalizing twice changes nothing; the last string of a list is
\* reported as a duplicate of the first exactly when a value set in the cache
\* under the first is returned by a get under the last; and no two items that
\* duplicate detection keeps share a cache key.
C19_OneNormalization ==
  /\ \A k \in 1..Len(items) :
       /\ NormalizeItem(items[k]) = NormalizeKey(items[k])
       /\ NormalizeKey(NormalizeKey(items[k])) = NormalizeKey(items[k])
       /\ NormalizeItem(NormalizeItem(items[k])) = NormalizeItem(items[k])
  /\ (pc = "probed" /\ Len(items) >= 2) =>
       LET duplicates == validation_report.duplicate_items
           reported == \E m \in 1..Len(duplicates) :
                         /\ duplicates[m][1] = Len(items)
                         /\ duplicates[m][3] = 1
       IN reported <=> cur # NoEntry
  /\ pc \in {"detected", "probed"} =>
       LET unique == validation_report.unique_items IN
       \A m \in 1..Len(unique) : \A n \in 1..(m - 1) :
         /\ NormalizeKey(unique[m]) # NormalizeKey(unique[n])
         /\ GetEntry(SetEntry(EmptyMap, unique[n], ProbeValue, clock),
                     unique[m]) = NoEntry

\* "10.1234/X" was set, " 10.1234/x " is reported as its duplicate and the
\* get under it returns the value
C19_Witness ==
  /\ pc = "probed"
  /\ items = <<<<"1", "0", ".", "1", "2", "3", "4", "/", "X">>,
               <<" ", "1", "0", ".", "1", "2", "3", "4", "/", "x", " ">>>>
  /\ validation_report.duplicate_items = <<<<2, items[2], 1>>>>
  /\ cur # NoEntry
  /\ cur.scopus_id = "E1"

\* ------------------------------------------------------------------------
\* Claims about cancellation
\* ------------------------------------------------------------------------
\* C20: once interrupt_flag is set in a process, that process sends no
\* further request to either service and starts no further item (the request
\* counter, the loop index and the accumulator stay as they are), and a
\* process interrupted in the processing loop is at Finalizing or over.
C20_NoDispatchAfterInterrupt ==
  /\ []((interrupt_flag /\ interruptedAt \in TryStates) =>
          pc \in {"finalizing", "done"})
  /\ []((interrupt_flag /\ interruptedAt \notin TryStates) => pc = "done")
  /\ [][(interrupt_flag /\ interrupt_flag') =>
          /\ requests_made' = requests_made
          /\ errors_count' = errors_count
          /\ i' = i
          /\ results' = results
          /\ pc' \in {"finalizing", "done"}]_vars
  /\ [][(interrupt_flag /\ ~interrupt_flag') =>
          (pc = "done" /\ runs' = runs + 1)]_vars

\* the interrupt arrived when the primary call of the second item or a later
\* one was about to be made: the call is not counted
C20_Witness ==
  /\ interrupt_flag /\ interruptedAt = "primary"
  /\ pc = "finalizing"
  /\ i >= 2
  /\ requests_made >= 1
  /\ requests_made <= 2 * (i - 1)

\* ------------------------------------------------------------------------
\* Claims about the read-through cache of the pipeline
\* ------------------------------------------------------------------------
\* the item in hand has an entry in the cache
ItemInCache == NormalizeKey(items[i]) \in DOMAIN cache

\* C21: with the cache enabled, an item whose normalized key is in the cache
\* is answered from it: no request is sent, cache_hits goes up by one and the
\* cache and its file stay as they are; an item that is not in the cache goes
\* to the lookup services, and its result is in the cache afterwards exactly
\* when it carries a Scopus ID.  Every entry of the cache and of its file has
\* a Scopus ID.
C21_ReadThroughCache ==
  /\ [](\A k \in DOMAIN cache : cache[k].scopus_id # None)
  /\ [](JsonLoads(cacheFile) =>
          \A k \in DOMAIN cacheFile.data : cacheFile.data[k].scopus_id # None)
  /\ []((pc = "append" /\ ~args.no_cache /\ ~cur.cached) =>
          /\ cur.scopus_id # None <=> ItemInCache
          /\ ItemInCache =>
               /\ GetEntry(cache, items[i]).scopus_id = cur.scopus_id
               /\ GetEntry(cache, items[i]).title = cur.title)
  /\ []((pc = "append" /\ cur.cached) =>
          /\ ~args.no_cache
          /\ ItemInCache
          /\ cur.scopus_id = GetEntry(cache, items[i]).scopus_id
          /\ cur.title = GetEntry(cache, items[i]).title)
  /\ [][(pc = "get_wait" /\ pc' \in {"append", "primary"}) =>
          /\ pc' = "append" <=> ItemInCache
          /\ cache' = cache /\ cacheFile' = cacheFile
          /\ requests_made' = requests_made
          /\ errors_count' = errors_count
          /\ cache_hits' = IF ItemInCache THEN cache_hits + 1 ELSE cache_hits]_vars
  /\ [][(requests_made' > requests_made /\ ~args.no_cache) =>
          (~ItemInCache /\ cache_hits' = cache_hits)]_vars
  /\ [][(pc \in TryStates /\ cache' # cache) =>
          (pc = "set_wait" /\ cur.scopus_id # None /\ ~args.no_cache)]_vars

\* in a later run an item is found in the cache after others were looked up
C21_Witness ==
  /\ pc = "append" /\ cur.cached
  /\ cur.scopus_id = "E"
  /\ cache_hits = 1
  /\ requests_made > 0
  /\ i > 1

\* ------------------------------------------------------------------------
\* Claims about checkpoints and the report across runs
\* ------------------------------------------------------------------------
\* C22: a checkpoint has been written when the 10th, 20th, ... item of a run
\* is done, and every checkpoint a run writes holds as many results as its
\* last_processed_index says, the j-th of them being the record of the j-th
\* item of the run's working list.
C22_CheckpointIsPrefix ==
  /\ []((pc = "loop" /\ i > 0 /\ i % CheckpointEvery = 0) =>
          /\ CheckpointLoads(checkpointFile)
          /\ checkpointFile.data.metadata.last_processed_index = start_index + i)
  /\ [][(checkpointFile' # checkpointFile /\ CheckpointLoads(checkpointFile')) =>
          LET saved == checkpointFile'.data
              working == validation_report.unique_items
          IN /\ pc = "ckpt_dump"
             /\ i % CheckpointEvery = 0
             /\ Len(saved.results) = saved.metadata.last_processed_index
             /\ Len(saved.results) <= Len(working)
             /\ \A j \in 1..Len(saved.results) :
                  RowIsAbout(search_mode, saved.results[j], working[j])]_vars

\* C25: every row of a report that a run writes is a record of the run's
\* mode, about an item of the run's working list.
C25_ReportRowsOfRunMode ==
  [][(outputFile' # outputFile /\ JsonLoads(outputFile')) =>
       LET rows == outputFile'.data
           working == validation_report.unique_items
       IN \A j \in 1..Len(rows) : \E k \in 1..Len(working) :
            RowIsAbout(search_mode, rows[j], working[k])]_vars

\* ------------------------------------------------------------------------
\* Claims about the counters
\* ------------------------------------------------------------------------
\* answers that are a 401, a 429, another non-200 status or a transport error
FailureKinds == {"401", "429", "500", "exc"}

\* C23: a lookup call that is made adds exactly one to requests_made; when it
\* ends in 401, 429, another non-200 status or a transport error it adds
\* exactly one to errors_count and returns nothing found, and no call adds
\* more than one; a call that the interrupt keeps from being made changes
\* neither counter, and no other step of the process changes them;
\* errors_count never exceeds requests_made.
C23_Counters ==
  /\ [](errors_count <= requests_made)
  /\ [][(pc = "primary" /\ ~interrupt_flag') =>
          LET kind == AnswerOf(items[i])[1] IN
          /\ requests_made' = requests_made + 1
          /\ errors_count' \in {errors_count, errors_count + 1}
          /\ kind \in FailureKinds =>
               /\ errors_count' = errors_count + 1
               /\ cur'.scopus_id = None /\ cur'.title = None
               /\ cur'.doi = None]_vars
  /\ [][(pc = "fallback" /\ ~interrupt_flag') =>
          LET kind == AnswerOf(items[i])[2] IN
          /\ requests_made' = requests_made + 1
          /\ errors_count' \in {errors_count, errors_count + 1}
          /\ kind \in FailureKinds =>
               /\ errors_count' = errors_count + 1
               /\ cur'.title = None
               /\ cur'.scopus_id = None]_vars
  /\ [][(pc \in {"primary", "fallback"} /\ interrupt_flag') =>
          (requests_made' = requests_made /\ errors_count' = errors_count)]_vars
  /\ [][(pc \notin {"primary", "fallback"} /\ runs' = runs) =>
          (requests_made' = requests_made /\ errors_count' = errors_count)]_vars

\* both calls for the first item have failed, the primary one with a 429
C23_Witness ==
  /\ pc = "store" /\ i = 1
  /\ AnswerOf(items[1]) = <<"429", "401">>
  /\ requests_made = 2
  /\ errors_count = 2
  /\ cur.scopus_id = None /\ cur.title = None

\* ------------------------------------------------------------------------
\* Claims about the checkpoint store
\* ------------------------------------------------------------------------
\* the number of items of this run that the last finished save of this run
\* covers, when main() is not inside a save
SavedItems ==
  LET completed == IF pc = "finalizing" THEN i ELSE CompletedAt(pc)
  IN (completed \div CheckpointEvery) * CheckpointEvery

\* C24: once a run has saved, the checkpoint file loads and holds exactly the
\* snapshot of the run's last save, whatever was saved before; nothing but a
\* save changes the file; a run with --resume takes the index and the results
\* of a file that loads, and starts from index 0 with no results, without
\* failing, when the file is missing or does not parse.
C24_CheckpointStore ==
  /\ []((pc \in (TryStates \cup {"finalizing"}) \ {"ckpt_open", "ckpt_dump"}
           /\ ~interrupt_flag /\ SavedItems > 0) =>
          /\ CheckpointLoads(checkpointFile)
          /\ checkpointFile.data =
               CheckpointOf(search_mode, validation_report.total,
                            start_index + SavedItems, clock,
                            SubSeq(results, 1,
                                   Len(existing_results) + SavedItems)))
  /\ [][(checkpointFile' # checkpointFile) =>
          (pc \in {"ckpt_open", "ckpt_dump"} /\ ~interrupt_flag')]_vars
  /\ [][(pc = "restoring" /\ args.resume /\ ~interrupt_flag') =>
          IF FileExists(checkpointFile) /\ JsonLoads(checkpointFile)
          THEN /\ start_index' = checkpointFile.data.metadata.last_processed_index
               /\ existing_results' = checkpointFile.data.results
          ELSE /\ start_index' = 0
               /\ existing_results' = <<>>
               /\ pc' = IF items = <<>> THEN "done" ELSE "loop"
               /\ results' = <<>>
               /\ items' = PySlice(items, 0, IF args.limit # 0 THEN args.limit
                                             ELSE Len(items))]_vars

\* a run with --resume that found the checkpoint half-written by the
\* interrupted save of the run before has processed its first item
C24_Witness ==
  /\ pc = "loop" /\ i = 1
  /\ args.resume /\ prevRun = "interrupted"
  /\ checkpointFile = TruncatedFile
  /\ start_index = 0
  /\ Len(results) = 1

\* ------------------------------------------------------------------------
\* Claims about --dry-run
\* ------------------------------------------------------------------------
\* C26: a run with --dry-run goes from loading to validating and ends there;
\* none of its steps sends a request or changes the cache, the cache file,
\* the checkpoint file or the report of results; when it has ended, the
\* validation report file holds the report of this input if the input has an
\* invalid or a duplicate item.
C26_DryRun ==
  /\ [][(pc \notin Stopped /\ args.dry_run) =>
          /\ pc' \in {"validating", "done"}
          /\ pc = "validating" => pc' = "done"
          /\ requests_made' = 0 /\ errors_count' = 0 /\ cache_hits' = 0
          /\ cache' = cache
          /\ cacheFile' = cacheFile
          /\ checkpointFile' = checkpointFile
          /\ outputFile' = outputFile
          /\ results' = <<>>]_vars
  /\ []((pc = "done" /\ args # EmptyMap /\ args.dry_run /\ ~interrupt_flag
           /\ FileExists(inputFile)) =>
          /\ requests_made = 0
          /\ validation_report # EmptyMap
          /\ (validation_report.invalid > 0 \/ validation_report.duplicates > 0)
               => reportFile =
                    JsonDump(ReportText(validation_report, search_mode)))

\* a dry run over an input with a duplicate has ended on a machine where an
\* earlier run left a cache file, a checkpoint and a report of results
C26_Witness ==
  /\ pc = "done" /\ runs = MaxRuns
  /\ args.dry_run /\ ~interrupt_flag
  /\ validation_report # EmptyMap
  /\ validation_report.duplicates > 0
  /\ reportFile = JsonDump(ReportText(validation_report, search_mode))
  /\ JsonLoads(cacheFile) /\ cacheFile.data # EmptyMap
  /\ CheckpointLoads(checkpointFile)
  /\ JsonLoads(outputFile) /\ Len(outputFile.data) > CheckpointEvery
  /\ requests_made = 0

====
